---- MODULE Spec2Model ----
(***************************************************************************)
(* claude-code-server: lock-file advertisement, port allocation, the       *)
(* parent-process watchdog, the shutdown paths, and the notification bus   *)
(* between the LSP front-end and the WebSocket (MCP) connections.          *)
(***************************************************************************)
EXTENDS Integers, Sequences, FiniteSets, TLC

\* ---------------------------------------------------------------- bounds
\* The environment may hold the first PortSpan ports of the default range.
PortSpan == 1
\* Uneventful watchdog polls that are counted.
MaxPolls == 2
\* Connections the accept loop takes.
MaxConns == 2
\* Notifications the LSP front-end publishes.
MaxEvents == 2
\* Inbound frames read over all connections.
MaxFrames == 2
\* Request ids a client uses: 1 .. MaxId.
MaxId == 2
\* Ports beyond the first that an allocation scenario ranges over.
AllocSpan == 3
\* Lock-file operations in a row.
MaxOps == 3
\* Requests the LSP front-end answers.
MaxLspRequests == 2
\* Characters in a line given to char_pos_to_byte_pos.
MaxLen == 3
\* Lines in a generated file, and the last line number of a range.
MaxLines == 2
\* Slots of the broadcast ring buffer.
BusCapacity == 1

\* ------------------------------------------------------ program constants
DEFAULT_PORT_START == 59792
DEFAULT_PORT_END == 59892
INIT_PID == 1

NoPort == 0
ModelPorts == DEFAULT_PORT_START .. (DEFAULT_PORT_START + PortSpan)
AllPorts == DEFAULT_PORT_START .. DEFAULT_PORT_END
Pids == {INIT_PID, 700, 701}
ConnIds == 1 .. MaxConns
AllocPorts == DEFAULT_PORT_START .. (DEFAULT_PORT_START + AllocSpan)
\* auth_token values: "own" is this process's; the others are other runs'.
Tokens == {"tokenA", "tokenB"}

VARIABLES
    \* configuration and environment
    shutdown_sender,  \* TRUE: the watchdog was given a watch::Sender
    port,             \* the requested port (NoPort: none)
    busy,             \* ports bound by other processes
    lock,             \* ~/.claude/ide/<port>.lock: "absent", "stale", "own"
    ppid,             \* what parent_id() returns now
    \* run_websocket_server_full
    wsPc, listener, actual_port, port_sent, ctrlcPc,
    \* spawn_parent_watchdog
    initial_ppid, current_ppid, wdPc, polls, shutdown, signals,
    \* the LSP task, the shutdown coordinator, the process
    lspPc, coordPc, exit, removals,
    \* the notification bus and the connections
    log, sender, conn, frames,
    \* the range given to find_available_port, whether ~/.claude/ide exists,
    \* and the lock-file calls made so far
    port_start, port_end, ide_dir, ops,
    \* each connection's MCPServer: its background task's receiver and its
    \* selection_state
    replica,
    \* the LSP front-end: the request being handled and the requests answered
    lsp,
    \* a call of char_pos_to_byte_pos / read_text_from_range: arguments, result
    txt,
    \* the frames clients have written and no connection task has read yet
    inbox

lifeVars == <<shutdown_sender, port, busy, lock, ppid, wsPc, listener,
              actual_port, port_sent, ctrlcPc, initial_ppid, current_ppid,
              wdPc, polls, shutdown, signals, lspPc, coordPc, exit, removals>>
lifeVars_but_lock ==
    <<shutdown_sender, port, busy, ppid, wsPc, listener, actual_port, port_sent,
      ctrlcPc, initial_ppid, current_ppid, wdPc, polls, shutdown, signals,
      lspPc, coordPc, exit, removals>>
busVars == <<log, sender, conn, frames>>
opVars == <<port_start, port_end, ide_dir, ops>>
selVars == <<replica, lsp, txt, inbox>>
vars == <<lifeVars, busVars, opVars, selVars>>

running == exit = "running"

\* ------------------------------------------------------- port allocation
RECURSIVE scan_range_exclusive(_, _, _)
scan_range_exclusive(p, last, inUse) ==
    IF p >= last THEN NoPort
    ELSE IF p \notin inUse THEN p
    ELSE scan_range_exclusive(p + 1, last, inUse)

RECURSIVE scan_range(_, _, _)
scan_range(p, last, inUse) ==
    IF p > last THEN NoPort
    ELSE IF p \notin inUse THEN p
    ELSE scan_range(p + 1, last, inUse)

find_available_port_scan_only(preferred_port, first, last, inUse) ==
    scan_range(first, last, inUse)
find_available_port(preferred_port, first, last, inUse) ==
    IF preferred_port # NoPort /\ preferred_port \notin inUse
    THEN preferred_port
    ELSE scan_range(first, last, inUse)

\* ------------------------------------------------------------ lock files
\* cleanup_lock_file(port): nothing to do without the directory (dir) or the
\* file; remove_file fails when ok is FALSE.
cleanup_fails_never(dir, files, p, ok) == FALSE
cleanup_fails(dir, files, p, ok) ==
    dir /\ p \in DOMAIN files /\ files[p] # "absent" /\ ~ok

cleanup_lock_file_all(dir, files, p, ok) ==
    IF dir /\ p \in DOMAIN files /\ files[p] # "absent" /\ ok
    THEN [q \in DOMAIN files |-> "absent"]
    ELSE files
cleanup_lock_file(dir, files, p, ok) ==
    IF dir /\ p \in DOMAIN files /\ files[p] # "absent" /\ ok
    THEN [files EXCEPT ![p] = "absent"]
    ELSE files

own_removed(dir, files, p, ok) ==
    IF dir /\ p \in DOMAIN files /\ files[p] = "own" /\ ok THEN 1 ELSE 0

\* The port create_lock_file is called with.
LockPortRequested == IF port \in ModelPorts THEN port ELSE actual_port
LockPort == actual_port

\* create_lock_file: fs::write replaces whatever the file held.
create_lock_file_skipped(files, p, auth_token) == files
create_lock_file_fixed_token(files, p, auth_token) == [files EXCEPT ![p] = "own"]
create_lock_file(files, p, auth_token) == [files EXCEPT ![p] = auth_token]

\* ------------------------------------------------------------ lsp/utils.rs
\* A &str is the sequence of its characters, each named by a string: "eacute"
\* is U+00E9, "emoji" is U+1F600, "\n" the line feed, the others ASCII.
Chars == {"a", "b", "eacute", "emoji"}

\* char::len_utf8 and char::len_utf16.
len_utf8(ch) == IF ch = "emoji" THEN 4 ELSE IF ch = "eacute" THEN 2 ELSE 1
len_utf16_one_unit(ch) == IF ch = "" THEN 0 ELSE 1
len_utf16(ch) == IF ch = "emoji" THEN 2 ELSE 1

\* str::len: the length in bytes.
RECURSIVE byte_len(_)
byte_len(line) ==
    IF line = <<>> THEN 0 ELSE len_utf8(Head(line)) + byte_len(Tail(line))

\* char_indices: the byte offset at which the i-th character starts.
byte_index(line, i) == byte_len(SubSeq(line, 1, i - 1))

\* line[from..to] for byte offsets on character boundaries.
slice(line, from, to) ==
    LET inside == {i \in 1 .. Len(line) :
                     from <= byte_index(line, i) /\ byte_index(line, i) < to}
    IN IF inside = {} THEN <<>>
       ELSE SubSeq(line, CHOOSE i \in inside : \A j \in inside : i <= j,
                         CHOOSE i \in inside : \A j \in inside : j <= i)

\* Option<usize>: None.
NoByte == -1

\* The for loop of char_pos_to_byte_pos from the i-th character on.
RECURSIVE char_pos_walk(_, _, _, _)
char_pos_walk(line, i, current_utf16_pos, utf16_pos) ==
    IF i > Len(line)
    THEN IF current_utf16_pos = utf16_pos THEN byte_len(line) ELSE NoByte
    ELSE IF current_utf16_pos = utf16_pos THEN byte_index(line, i)
    ELSE IF utf16_pos < current_utf16_pos + len_utf16(line[i])
    THEN byte_index(line, i)
    ELSE char_pos_walk(line, i + 1, current_utf16_pos + len_utf16(line[i]),
                       utf16_pos)

char_pos_to_byte_pos_as_bytes(line, utf16_pos) ==
    IF utf16_pos <= byte_len(line) THEN utf16_pos ELSE NoByte
char_pos_to_byte_pos(line, utf16_pos) == char_pos_walk(line, 1, 0, utf16_pos)

\* lsp_types::Position and Range; lines and characters count from 0.
Position(line, character) == [line |-> line, character |-> character]
Range(start, end) == [start |-> start, end |-> end]

\* What fs::read_to_string and content.lines() give: ok is FALSE when the
\* read fails.
File(lines) == [ok |-> TRUE, lines |-> lines]
Unreadable == [ok |-> FALSE, lines |-> <<>>]

\* The multi-line loop of read_text_from_range from line_index on.
RECURSIVE read_lines(_, _, _, _)
read_lines(lines, range, line_index, selected_text) ==
    IF line_index > range.end.line THEN selected_text
    ELSE read_lines(lines, range, line_index + 1,
            IF line_index < Len(lines)
            THEN LET line == lines[line_index + 1]
                     start_byte ==
                         char_pos_to_byte_pos(line, range.start.character)
                     end_byte == char_pos_to_byte_pos(line, range.end.character)
                     piece ==
                         IF line_index = range.start.line
                         THEN IF start_byte # NoByte
                              THEN slice(line, start_byte, byte_len(line))
                              ELSE <<>>
                         ELSE IF line_index = range.end.line
                         THEN IF end_byte # NoByte
                              THEN slice(line, 0, end_byte)
                              ELSE <<>>
                         ELSE line
                 IN selected_text \o piece
                    \o (IF line_index < range.end.line THEN <<"\n">> ELSE <<>>)
            ELSE selected_text)

read_text_from_range_any_order(file, range) ==
    IF ~file.ok THEN <<>>
    ELSE IF range.start.line = range.end.line
    THEN IF range.start.line < Len(file.lines)
         THEN LET line == file.lines[range.start.line + 1]
                  start_byte ==
                      char_pos_to_byte_pos(line, range.start.character)
                  end_byte == char_pos_to_byte_pos(line, range.end.character)
              IN IF start_byte # NoByte /\ end_byte # NoByte
                 THEN IF start_byte <= end_byte
                      THEN slice(line, start_byte, end_byte)
                      ELSE slice(line, end_byte, start_byte)
                 ELSE <<>>
         ELSE <<>>
    ELSE read_lines(file.lines, range, range.start.line, <<>>)
read_text_from_range(file, range) ==
    IF ~file.ok THEN <<>>
    ELSE IF range.start.line = range.end.line
    THEN IF range.start.line < Len(file.lines)
         THEN LET line == file.lines[range.start.line + 1]
                  start_byte ==
                      char_pos_to_byte_pos(line, range.start.character)
                  end_byte == char_pos_to_byte_pos(line, range.end.character)
              IN IF start_byte # NoByte /\ end_byte # NoByte
                    /\ start_byte <= end_byte
                 THEN slice(line, start_byte, end_byte)
                 ELSE <<>>
         ELSE <<>>
    ELSE read_lines(file.lines, range, range.start.line, <<>>)

\* The two byte offsets read_text_from_range maps for a single-line range
\* whose line is in the file: (start_byte, end_byte); <<>> otherwise.
single_line_bytes(file, range) ==
    IF file.ok /\ range.start.line = range.end.line
       /\ range.start.line < Len(file.lines)
    THEN LET line == file.lines[range.start.line + 1]
         IN <<char_pos_to_byte_pos(line, range.start.character),
              char_pos_to_byte_pos(line, range.end.character)>>
    ELSE <<>>

\* One call of the functions above: its arguments and, once done, its result
\* (mapped, text) and the offsets it mapped on the way (bytes).
\* NoTxt: no call is being followed.
TxtCall == [op |-> "none", line |-> <<>>, utf16_pos |-> 0, file |-> Unreadable,
            range |-> Range(Position(0, 0), Position(0, 0)), done |-> FALSE,
            mapped |-> NoByte, text |-> <<>>, bytes |-> <<>>]
NoTxt == <<>>

\* ---------------------------------------------------------- the bus
NoRx == -1
\* Receiver::resubscribe(): the new receiver starts at the current tail.
resubscribe_replay == IF Len(log) > 0 THEN Len(log) - 1 ELSE Len(log)
resubscribe == Len(log)

\* A connection: its task's state, its receiver's next position (rx), how the
\* receiver ended (rxEnd), and the frames written to its socket (sent).
\* History kept for the properties: the tail at subscription (subAt), whether
\* more than BusCapacity events were ever unread (overrun), the length of
\* sent when the receiver was dropped (dropAt), why the task ended (why).
\* rcvd: the inbound frames handled so far, each with the frames sent in
\* answer to it and whether a request handler ran for it.
NoConn == [state |-> "none", rx |-> NoRx, rxEnd |-> "none", subAt |-> 0,
           overrun |-> FALSE, dropAt |-> 0, sent |-> <<>>, why |-> "none",
           rcvd |-> <<>>]

\* The server's own receiver lives as long as run_websocket_server_full runs.
template_receiver == wsPc \in {"start", "bound", "cleaned", "accepting"}

\* Option<SelectionState>: <<>> is None, <<s>> is Some(s).
NoSelection == <<>>

\* A connection's MCPServer: the receiver its background task reads from (rx,
\* NoRx once the task has ended and dropped it), the tail at its subscription
\* (subAt), the value of selection_state, and whether the task was spawned.
NoReplica == [rx |-> NoRx, subAt |-> 0, state |-> NoSelection, task |-> "none"]

receiver_count ==
    (IF template_receiver THEN 1 ELSE 0)
    + Cardinality({c \in ConnIds : conn[c].rx # NoRx})
    + Cardinality({c \in ConnIds : replica[c].rx # NoRx})

\* JsonRpcNotification, with its publish number n.
Event(n, method, params) == [n |-> n, method |-> method, params |-> params]

\* broadcast::Sender::send: an error, and nothing stored, without receivers.
bus_send(method, params) ==
    IF receiver_count = 0 THEN log
    ELSE Append(log, Event(Len(log) + 1, method, params))

\* broadcast::Receiver::recv on a receiver whose next position is rx.
recv_outcome_early_lag(rx) ==
    IF Len(log) - rx >= BusCapacity THEN "lagged"
    ELSE IF rx < Len(log) THEN "value"
    ELSE IF ~sender THEN "closed"
    ELSE "wait"
recv_outcome(rx) ==
    IF Len(log) - rx > BusCapacity THEN "lagged"
    ELSE IF rx < Len(log) THEN "value"
    ELSE IF ~sender THEN "closed"
    ELSE "wait"

\* The connection loop's state after recv returned an error.
after_recv_error_break == "closed"
after_recv_error == "open"

\* ------------------------------------------------ run_websocket_server_full
WsBind ==
    /\ running /\ wsPc = "start"
    /\ LET p == find_available_port(port, port_start, port_end, busy)
       IN IF p = NoPort
          THEN /\ wsPc' = "failed"
               /\ UNCHANGED <<listener, actual_port, port_sent>>
          ELSE /\ wsPc' = "bound"
               /\ listener' = p
               /\ actual_port' = p
               /\ port_sent' = p
    /\ UNCHANGED <<shutdown_sender, port, busy, lock, ppid, ctrlcPc,
                   initial_ppid, current_ppid, wdPc, polls, shutdown, signals,
                   lspPc, coordPc, exit, removals, busVars>>
    /\ UNCHANGED opVars
    /\ UNCHANGED selVars

WsCleanStale ==
    /\ running /\ wsPc = "bound"
    /\ \E ok \in BOOLEAN :
        IF cleanup_fails(ide_dir, lock, actual_port, ok)
        THEN /\ wsPc' = "failed"
             /\ listener' = NoPort
             /\ lock' = lock
        ELSE /\ wsPc' = "cleaned"
             /\ lock' = cleanup_lock_file(ide_dir, lock, actual_port, ok)
             /\ listener' = listener
    /\ UNCHANGED <<shutdown_sender, port, busy, ppid, actual_port, port_sent,
                   ctrlcPc, initial_ppid, current_ppid, wdPc, polls, shutdown,
                   signals, lspPc, coordPc, exit, removals, busVars>>
    /\ UNCHANGED opVars
    /\ UNCHANGED selVars

WsCreateLock ==
    /\ running /\ wsPc = "cleaned"
    /\ \E ok \in BOOLEAN :
        IF ok
        THEN /\ lock' = create_lock_file(lock, LockPort, "own")
             /\ ide_dir' = TRUE
             /\ wsPc' = "accepting"
             /\ ctrlcPc' = "armed"
             /\ listener' = listener
        ELSE /\ wsPc' = "failed"
             /\ listener' = NoPort
             /\ ide_dir' \in {ide_dir, TRUE}
             /\ UNCHANGED <<lock, ctrlcPc>>
    /\ UNCHANGED <<shutdown_sender, port, busy, ppid, actual_port, port_sent,
                   initial_ppid, current_ppid, wdPc, polls, shutdown, signals,
                   lspPc, coordPc, exit, removals, busVars>>
    /\ UNCHANGED <<port_start, port_end, ops>>
    /\ UNCHANGED selVars

\* listener.accept() returned Ok: resubscribe and spawn handle_connection.
Accept(c) ==
    /\ running /\ wsPc = "accepting" /\ listener # NoPort
    /\ conn[c].state = "none"
    /\ \A d \in ConnIds : d < c => conn[d].state # "none"
    /\ conn' = [conn EXCEPT ![c] = [NoConn EXCEPT !.state = "handshake",
                                                  !.rx = resubscribe,
                                                  !.subAt = Len(log)]]
    /\ UNCHANGED <<lifeVars, log, sender, frames>>
    /\ UNCHANGED opVars
    /\ UNCHANGED selVars

\* listener.accept() returned Err: the loop ends and the function returns.
AcceptError ==
    /\ running /\ wsPc = "accepting"
    /\ wsPc' = "returned"
    /\ listener' = NoPort
    /\ UNCHANGED <<shutdown_sender, port, busy, lock, ppid, actual_port,
                   port_sent, ctrlcPc, initial_ppid, current_ppid, wdPc, polls,
                   shutdown, signals, lspPc, coordPc, exit, removals, busVars>>
    /\ UNCHANGED opVars
    /\ UNCHANGED selVars

\* The Ctrl+C task: cleanup_lock_file, then process::exit(0).
CtrlCCleanup ==
    /\ running /\ ctrlcPc = "armed"
    /\ \E ok \in BOOLEAN :
        /\ lock' = cleanup_lock_file(ide_dir, lock, actual_port, ok)
        /\ removals' = removals + own_removed(ide_dir, lock, actual_port, ok)
    /\ ctrlcPc' = "cleaned"
    /\ UNCHANGED <<shutdown_sender, port, busy, ppid, wsPc, listener,
                   actual_port, port_sent, initial_ppid, current_ppid, wdPc,
                   polls, shutdown, signals, lspPc, coordPc, exit, busVars>>
    /\ UNCHANGED opVars
    /\ UNCHANGED selVars

CtrlCExit ==
    /\ running /\ ctrlcPc = "cleaned"
    /\ exit' = "ctrl_c"
    /\ listener' = NoPort
    /\ UNCHANGED <<shutdown_sender, port, busy, lock, ppid, wsPc, actual_port,
                   port_sent, ctrlcPc, initial_ppid, current_ppid, wdPc, polls,
                   shutdown, signals, lspPc, coordPc, removals, busVars>>
    /\ UNCHANGED opVars
    /\ UNCHANGED selVars

\* ---------------------------------------------------- spawn_parent_watchdog
parent_dead_changed_only(cur, initial) == cur # initial
parent_dead_unless_init(cur, initial) == cur # initial \/ cur # INIT_PID
parent_presumed_dead(cur, initial) == cur # initial \/ cur = INIT_PID

\* The parent exits: the process is reparented.
ParentDies ==
    /\ running /\ ppid = initial_ppid
    /\ \E p \in Pids \ {initial_ppid} : ppid' = p
    /\ UNCHANGED <<shutdown_sender, port, busy, lock, wsPc, listener,
                   actual_port, port_sent, ctrlcPc, initial_ppid, current_ppid,
                   wdPc, polls, shutdown, signals, lspPc, coordPc, exit,
                   removals, busVars>>
    /\ UNCHANGED opVars
    /\ UNCHANGED selVars

\* What the watchdog does once the grace sleep is over.
grace_over_keeps_waiting == exit
grace_over == "watchdog_forced"

\* One iteration of the loop after the 5 s sleep.
WdPoll ==
    /\ running /\ wdPc = "sleep"
    /\ current_ppid' = ppid
    /\ IF parent_presumed_dead(ppid, initial_ppid)
       THEN IF shutdown_sender
            THEN /\ shutdown' = TRUE
                 /\ signals' = signals + 1
                 /\ wdPc' = "grace"
                 /\ UNCHANGED <<exit, listener, polls>>
            ELSE /\ exit' = "watchdog"
                 /\ listener' = NoPort
                 /\ UNCHANGED <<shutdown, signals, wdPc, polls>>
       ELSE /\ polls < MaxPolls
            /\ polls' = polls + 1
            /\ UNCHANGED <<shutdown, signals, wdPc, exit, listener>>
    /\ UNCHANGED <<shutdown_sender, port, busy, lock, ppid, wsPc, actual_port,
                   port_sent, ctrlcPc, initial_ppid, lspPc, coordPc, removals,
                   busVars>>
    /\ UNCHANGED opVars
    /\ UNCHANGED selVars

\* The 2 s grace sleep is over: process::exit(0).
WdGraceTimeout ==
    /\ running /\ wdPc = "grace"
    /\ exit' = grace_over
    /\ listener' = IF exit' = "running" THEN listener ELSE NoPort
    /\ wdPc' = "done"
    /\ UNCHANGED <<shutdown_sender, port, busy, lock, ppid, wsPc, actual_port,
                   port_sent, ctrlcPc, initial_ppid, current_ppid, polls,
                   shutdown, signals, lspPc, coordPc, removals, busVars>>
    /\ UNCHANGED opVars
    /\ UNCHANGED selVars

\* ------------------------------------------------------------- the LSP task
\* stdin closes: Server::serve returns and the server's sender is dropped.
LspEnd ==
    /\ running /\ lspPc = "serving"
    /\ lspPc' = "stopped"
    /\ sender' = FALSE
    /\ UNCHANGED <<shutdown_sender, port, busy, lock, ppid, wsPc, listener,
                   actual_port, port_sent, ctrlcPc, initial_ppid, current_ppid,
                   wdPc, polls, shutdown, signals, coordPc, exit, removals,
                   log, conn, frames>>
    /\ UNCHANGED opVars
    /\ UNCHANGED selVars

\* ------------------------------------------------- the shutdown coordinator
\* Stop accepting, remove the lock file of the reported port, exit.
CoordStop ==
    /\ running /\ coordPc = "waiting"
    /\ shutdown \/ lspPc = "stopped" \/ wsPc \in {"returned", "failed"}
    /\ wsPc \notin {"bound", "cleaned"}
    /\ coordPc' = "stopping"
    /\ listener' = NoPort
    /\ wsPc' = IF wsPc \in {"start", "accepting"} THEN "aborted" ELSE wsPc
    /\ UNCHANGED <<shutdown_sender, port, busy, lock, ppid, actual_port,
                   port_sent, ctrlcPc, initial_ppid, current_ppid, wdPc, polls,
                   shutdown, signals, lspPc, exit, removals, busVars>>
    /\ UNCHANGED opVars
    /\ UNCHANGED selVars

CoordCleanup ==
    /\ running /\ coordPc = "stopping"
    /\ \E ok \in BOOLEAN :
        /\ lock' = cleanup_lock_file(ide_dir, lock, port_sent, ok)
        /\ removals' = removals + own_removed(ide_dir, lock, port_sent, ok)
    /\ coordPc' = "cleaned"
    /\ UNCHANGED <<shutdown_sender, port, busy, ppid, wsPc, listener,
                   actual_port, port_sent, ctrlcPc, initial_ppid, current_ppid,
                   wdPc, polls, shutdown, signals, lspPc, exit, busVars>>
    /\ UNCHANGED opVars
    /\ UNCHANGED selVars

CoordExit ==
    /\ running /\ coordPc = "cleaned"
    /\ exit' = "coordinator"
    /\ listener' = NoPort
    /\ UNCHANGED <<shutdown_sender, port, busy, lock, ppid, wsPc, actual_port,
                   port_sent, ctrlcPc, initial_ppid, current_ppid, wdPc, polls,
                   shutdown, signals, lspPc, coordPc, removals, busVars>>
    /\ UNCHANGED opVars
    /\ UNCHANGED selVars

\* ------------------------------------------------------------ send_notification
\* The LSP front-end publishes one notification (code_action, selection_range,
\* the at-mention command); the bus carries it whatever its method.
Publish(method, params) ==
    /\ running /\ lspPc = "serving"
    /\ Len(log) < MaxEvents
    /\ log' = bus_send(method, params)
    /\ conn' = [c \in ConnIds |->
                  IF conn[c].rx # NoRx /\ Len(log') - conn[c].rx > BusCapacity
                  THEN [conn[c] EXCEPT !.overrun = TRUE]
                  ELSE conn[c]]
    /\ UNCHANGED <<lifeVars, sender, frames>>
    /\ UNCHANGED opVars
    /\ UNCHANGED selVars

\* ------------------------------------------------------- handle_connection
\* A connection whose task has ended owns nothing any more.
Ended(why) == [NoConn EXCEPT !.state = "closed", !.why = why]

\* The handshake succeeds and handle_websocket_connection builds the
\* connection's MCPServer on a receiver of its own, whose task is spawned.
HandshakeOk(c) ==
    /\ running /\ conn[c].state = "handshake"
    /\ conn' = [conn EXCEPT ![c].state = "open"]
    /\ replica' = [replica EXCEPT ![c] =
                      [NoReplica EXCEPT !.rx = resubscribe,
                                        !.subAt = Len(log),
                                        !.task = "running"]]
    /\ UNCHANGED <<lifeVars, log, sender, frames>>
    /\ UNCHANGED opVars
    /\ UNCHANGED <<lsp, txt, inbox>>

HandshakeFail(c) ==
    /\ running /\ conn[c].state = "handshake"
    /\ conn' = [conn EXCEPT ![c] = Ended("handshake")]
    /\ UNCHANGED <<lifeVars, log, sender, frames>>
    /\ UNCHANGED opVars
    /\ UNCHANGED selVars

\* ---------------------------------------------- handle_websocket_connection
\* The select! branch on receiver.recv().
Forward(c) ==
    /\ running /\ conn[c].state = "open" /\ conn[c].rx # NoRx
    /\ LET r == recv_outcome(conn[c].rx)
       IN /\ r # "wait"
          /\ IF r = "value"
             THEN \E ok \in BOOLEAN :
                    IF ok
                    THEN conn' = [conn EXCEPT
                            ![c].rx = @ + 1,
                            ![c].sent = Append(@, [kind |-> "notification",
                                                   id |-> log[conn[c].rx + 1]])]
                    ELSE conn' = [conn EXCEPT ![c] = Ended("send_error")]
             ELSE IF after_recv_error = "open"
                  THEN conn' = [conn EXCEPT ![c].rx = NoRx, ![c].rxEnd = r,
                                            ![c].dropAt = Len(conn[c].sent)]
                  ELSE conn' = [conn EXCEPT ![c] = Ended("bus_error")]
    /\ UNCHANGED <<lifeVars, log, sender, frames>>
    /\ UNCHANGED opVars
    /\ UNCHANGED selVars

\* ------------------------------------------------ MCPServer::with_notifications
\* serde_json::from_value::<SelectionState>: Ok exactly when params has the
\* fields of a selection; the result keeps those fields.
SelectionFields == {"text", "start", "end", "is_empty"}
SelectionState_from_value(params) ==
    IF SelectionFields \subseteq DOMAIN params
    THEN <<[f \in SelectionFields |-> params[f]]>>
    ELSE NoSelection

\* What the background task does with one notification.
replica_update(state, notification) ==
    IF notification.method = "selection_changed"
    THEN LET selection == SelectionState_from_value(notification.params)
         IN IF selection # NoSelection THEN selection ELSE state
    ELSE state

\* The background task, were it handed the socket: it forwards what it reads.
ReplicaRecv_writing(c) ==
    /\ running /\ replica[c].rx # NoRx
    /\ recv_outcome(replica[c].rx) = "value"
    /\ replica' = [replica EXCEPT
            ![c].rx = @ + 1,
            ![c].state = replica_update(@, log[replica[c].rx + 1])]
    /\ conn' = [conn EXCEPT
            ![c].sent = Append(@, [kind |-> "notification",
                                   id |-> log[replica[c].rx + 1]])]
    /\ UNCHANGED <<lifeVars, log, sender, frames>>
    /\ UNCHANGED opVars
    /\ UNCHANGED <<lsp, txt, inbox>>

\* One turn of the background task's `while let Ok(..) = rx.recv().await`:
\* a notification is applied; Lagged or Closed ends the task, which drops its
\* receiver. Nothing stops the task when its connection ends.
ReplicaRecv(c) ==
    /\ running /\ replica[c].rx # NoRx
    /\ LET r == recv_outcome(replica[c].rx)
       IN /\ r # "wait"
          /\ IF r = "value"
             THEN replica' = [replica EXCEPT
                     ![c].rx = @ + 1,
                     ![c].state = replica_update(@, log[replica[c].rx + 1])]
             ELSE replica' = [replica EXCEPT ![c].rx = NoRx,
                                             ![c].task = "ended"]
    /\ UNCHANGED <<lifeVars, busVars>>
    /\ UNCHANGED opVars
    /\ UNCHANGED <<lsp, txt, inbox>>

\* ------------------------------------------------------------- MCP requests
\* MCPRequest.id: Option<Value>; NoId is None.
NoId == 0
RequestIds == 1 .. MaxId
KnownMethods == {"initialize", "tools/list", "tools/call", "logging/setLevel",
                 "prompts/list", "prompts/get"}
\* Methods for which method.starts_with("notifications/") holds.
NotificationMethods == {"notifications/initialized"}
Methods == KnownMethods \cup NotificationMethods \cup {"resources/list"}
\* params: absent, an object without "name", an object with "name".
Params == {"none", "unnamed", "named"}

\* What ws_receiver.next() yields: None ("end"), Some(Err) ("error"), or a
\* message: a close frame, a binary frame, a text frame that does not decode
\* as MCPRequest ("malformed"), a text frame that does ("request").
\* name: the string under "name" in params ("" without one).
Msg(t) == [t |-> t, id |-> NoId, method |-> "", params |-> "none", name |-> ""]
Request(id, method, params, name) ==
    [t |-> "request", id |-> id, method |-> method, params |-> params,
     name |-> name]
Requests ==
    {Request(i, m, p, IF p = "named" THEN "openDiff" ELSE "") :
        i \in {NoId} \cup RequestIds, m \in Methods, p \in Params}
Frames ==
    {Msg("end"), Msg("error"), Msg("close"), Msg("binary"), Msg("malformed")}
    \cup {r \in Requests :
            r.params # "none" => r.method \in {"tools/call", "prompts/get"}}
\* The frames a client of the bus scenario sends.
BusFrames ==
    {Msg("end"), Request(1, "tools/list", "none", "")}

\* handle_tools_call / handle_prompts_get fail without params or name; the
\* other handlers, and dispatch_tool, always succeed.
handler_error_never(method, params) == ""
handler_error(method, params) ==
    IF method = "tools/call"
    THEN IF params = "none" THEN "Missing parameters for tools/call"
         ELSE IF params = "unnamed" THEN "Missing tool name"
         ELSE ""
    ELSE IF method = "prompts/get"
    THEN IF params = "none" THEN "Missing parameters for prompts/get"
         ELSE IF params = "unnamed" THEN "Missing prompt name"
         ELSE ""
    ELSE ""

\* MCPResponse: result / error say whether the Option is Some; wrapped says
\* whether the result is {content, isError}.
Response(id, result, code, data) ==
    [kind |-> "response", id |-> id, result |-> result, error |-> code # 0,
     code |-> code, data |-> data, wrapped |-> FALSE, content |-> <<>>,
     isError |-> FALSE]

\* ------------------------------------------------------------- mcp/tools
SupportedTools ==
    {"getWorkspaceFolders", "getCurrentSelection", "getLatestSelection",
     "getDiagnostics"}
UnsupportedTools ==
    {"openDiff", "openFile", "getOpenEditors", "closeAllDiffTabs", "close_tab",
     "checkDocumentDirty", "saveDocument", "echo", "get_workspace_info",
     "executeCode"}
\* The names a client calls: two of the listed unsupported ones and one unknown.
ToolNames == SupportedTools \cup {"openDiff", "echo", "unknownTool"}

\* TextContent; text is the JSON value the string is printed from.
TextContent(text) == [type |-> "text", text |-> text]

not_supported_response(tool_name) ==
    <<TextContent([not_supported |-> tool_name])>>

get_current_selection(selection_state) ==
    <<TextContent(IF selection_state # NoSelection
                  THEN [success |-> TRUE, selection |-> selection_state[1]]
                  ELSE [success |-> FALSE, message |-> "No active editor found"])>>

get_latest_selection(selection_state) ==
    <<TextContent(IF selection_state # NoSelection
                  THEN [success |-> TRUE, selection |-> selection_state[1]]
                  ELSE [success |-> FALSE, message |-> "No selection available"])>>

get_workspace_folders == <<TextContent([success |-> TRUE, folders |-> "worktree"])>>
get_diagnostics == <<TextContent([diagnostics |-> <<>>])>>

dispatch_tool_unknown_empty(tool_name, selection_state) ==
    IF tool_name = "getWorkspaceFolders" THEN get_workspace_folders
    ELSE IF tool_name = "getCurrentSelection"
    THEN get_current_selection(selection_state)
    ELSE IF tool_name = "getLatestSelection"
    THEN get_latest_selection(selection_state)
    ELSE IF tool_name = "getDiagnostics" THEN get_diagnostics
    ELSE IF tool_name \in UnsupportedTools THEN not_supported_response(tool_name)
    ELSE <<>>
dispatch_tool(tool_name, selection_state) ==
    IF tool_name = "getWorkspaceFolders" THEN get_workspace_folders
    ELSE IF tool_name = "getCurrentSelection"
    THEN get_current_selection(selection_state)
    ELSE IF tool_name = "getLatestSelection"
    THEN get_latest_selection(selection_state)
    ELSE IF tool_name = "getDiagnostics" THEN get_diagnostics
    ELSE IF tool_name \in UnsupportedTools THEN not_supported_response(tool_name)
    ELSE not_supported_response(tool_name)

\* handle_tools_call's Ok value: {"content": content, "isError": false}.
ToolResult(id, content) ==
    [Response(id, TRUE, 0, "") EXCEPT !.wrapped = TRUE, !.content = content]

\* The match on request.method: FALSE is the wildcard arm.
is_known_any(method) == TRUE
is_known(method) == method \in KnownMethods

\* MCPServer::handle_request: Ok(response), or Err(detail) from a handler.
handle_request(request, selection_state) ==
    IF ~is_known(request.method)
    THEN [ok |-> TRUE, ran |-> FALSE,
          detail |-> "",
          response |-> Response(request.id, FALSE, -32601, "")]
    ELSE LET e == handler_error(request.method, request.params)
         IN IF e = ""
            THEN [ok |-> TRUE, ran |-> TRUE, detail |-> "",
                  response |->
                      IF request.method = "tools/call"
                      THEN ToolResult(request.id,
                                      dispatch_tool(request.name, selection_state))
                      ELSE Response(request.id, TRUE, 0, "")]
            ELSE [ok |-> FALSE, ran |-> TRUE, detail |-> e,
                  response |-> Response(NoId, FALSE, 0, "")]

\* The id handle_websocket_message puts in the internal-error response.
internal_error_id(request) == NoId

parse_error_code_invalid_request == -32700 + 100
parse_error_code == -32700

\* Requests without id whose method starts with "notifications/".
is_notification_never(m) == FALSE
is_notification(m) == m.id = NoId /\ m.method \in NotificationMethods

\* What a handler failure does to the loop: "continue" or "break".
after_handler_error_break == "break"
after_handler_error == "continue"

\* handle_websocket_message without the send: the frames to send, whether a
\* handler ran, and whether the function returns Ok when the send succeeds.
handle_websocket_message(m, selection_state) ==
    IF m.t = "error" THEN [reply |-> <<>>, ran |-> FALSE, ok |-> FALSE]
    ELSE IF m.t = "malformed"
    THEN [reply |-> <<Response(NoId, FALSE, parse_error_code, "")>>,
          ran |-> FALSE, ok |-> TRUE]
    ELSE IF m.t = "request"
    THEN IF is_notification(m)
         THEN [reply |-> <<>>, ran |-> FALSE, ok |-> TRUE]
         ELSE LET h == handle_request(m, selection_state)
              IN IF h.ok
                 THEN [reply |-> <<h.response>>, ran |-> h.ran, ok |-> TRUE]
                 ELSE [reply |-> <<Response(internal_error_id(m), FALSE, -32603,
                                            h.detail)>>,
                       ran |-> h.ran, ok |-> after_handler_error = "continue"]
    ELSE [reply |-> <<>>, ran |-> FALSE, ok |-> TRUE]

\* ws_sender.send: the frames go on the socket after those already written.
ws_send_first(sent, reply) == reply \o sent
ws_send(sent, reply) == sent \o reply

\* The select! branch on ws_receiver.next(), with handle_websocket_message,
\* for the frame f that next() yields.
ReadFrame(c, f) ==
    /\ running /\ conn[c].state = "open"
    /\ frames < MaxFrames
    /\ frames' = frames + 1
    /\ IF f.t = "end"
       THEN conn' = [conn EXCEPT ![c] = Ended("peer_close")]
       ELSE LET h == handle_websocket_message(f, replica[c].state)
            IN IF f.t = "error"
               THEN conn' = [conn EXCEPT ![c] = Ended("recv_error")]
               ELSE IF ~h.ok
               THEN conn' = [conn EXCEPT ![c] = Ended("handler_error")]
               ELSE \E sendOk \in BOOLEAN :
                      IF h.reply # <<>> /\ ~sendOk
                      THEN conn' = [conn EXCEPT ![c] = Ended("send_error")]
                      ELSE /\ h.reply = <<>> => sendOk
                           /\ conn' = [conn EXCEPT
                                  ![c].sent = ws_send(@, h.reply),
                                  ![c].rcvd = Append(@, [msg |-> f,
                                                         reply |-> h.reply,
                                                         ran |-> h.ran,
                                                         state |-> replica[c].state])]
    /\ UNCHANGED <<lifeVars, log, sender>>
    /\ UNCHANGED opVars
    /\ UNCHANGED <<replica, lsp, txt>>

\* A frame arrives and the branch runs at once.
RecvFrame(c, f) == ReadFrame(c, f) /\ UNCHANGED inbox

\* A client writes a frame to its socket; the connection task has yet to be
\* polled. Frames of one connection are read in the order they were written.
Queued(c) == SelectSeq(inbox, LAMBDA e : e.c = c)
ClientSend(c, f) ==
    /\ running /\ conn[c].state = "open"
    /\ frames + Len(inbox) < MaxFrames
    /\ inbox' = Append(inbox, [c |-> c, msg |-> f])
    /\ UNCHANGED <<lifeVars, busVars>>
    /\ UNCHANGED opVars
    /\ UNCHANGED <<replica, lsp, txt>>

\* The branch on ws_receiver.next() runs for the oldest unread frame.
RecvQueued(c) ==
    /\ Queued(c) # <<>>
    /\ ReadFrame(c, Queued(c)[1].msg)
    /\ LET i == CHOOSE j \in 1 .. Len(inbox) :
                   /\ inbox[j].c = c
                   /\ \A k \in 1 .. (j - 1) : inbox[k].c # c
       IN inbox' = SubSeq(inbox, 1, i - 1) \o SubSeq(inbox, i + 1, Len(inbox))

\* ------------------------------------------------------------ lsp/handlers.rs
\* The LSP front-end: the file on disk its requests name (file), the
\* selection_range request whose loop is running (req, with done positions
\* handled), and, for the properties, the requests answered so far, each with
\* the length of the log when its handler started (first) and returned (at)
\* and the publish numbers of the events its handler sent (events).
NoRequest == [kind |-> "none"]
Backend(file) == [file |-> file, req |-> NoRequest, done |-> 0, first |-> 0,
                  events |-> <<>>, answered |-> <<>>]
\* NoLsp: no LSP request is being followed.
NoLsp == <<>>
Answer(req, first, events, at) ==
    [req |-> req, first |-> first, events |-> events, at |-> at]

\* The publish number of what send_notification put on the bus, if anything.
Sent(before, after) == IF Len(after) > Len(before) THEN <<Len(after)>> ELSE <<>>

\* SelectionChangedNotification as code_action fills it.
code_action_notification_empty_text(file, range) ==
    [text |-> <<>>, start |-> range.start, end |-> range.end,
     is_empty |-> range.start = range.end]
code_action_notification(file, range) ==
    [text |-> read_text_from_range(file, range),
     start |-> range.start, end |-> range.end,
     is_empty |-> range.start = range.end]

\* SelectionChangedNotification as selection_range fills it for one position.
selection_range_notification(file, position) ==
    LET end == Position(position.line, position.character + 1)
    IN [text |-> read_text_from_range(file, Range(position, end)),
        start |-> position, end |-> end, is_empty |-> TRUE]

\* params.arguments.first(): <<>> is None.
first_argument_or_default(arguments) ==
    IF arguments = <<>> THEN <<[other |-> 0]>> ELSE <<arguments[1]>>
first_argument(arguments) ==
    IF arguments = <<>> THEN <<>> ELSE <<arguments[1]>>

\* AtMentionedNotification built from the first argument: get(..) with
\* unwrap_or("") / unwrap_or(0). Line numbers are taken below 2^32, where
\* `as u32` changes nothing.
at_mentioned_notification(mention_data) ==
    [file_path |-> IF "filePath" \in DOMAIN mention_data
                   THEN mention_data.filePath ELSE "",
     line_start |-> IF "lineStart" \in DOMAIN mention_data
                    THEN mention_data.lineStart ELSE 0,
     line_end |-> IF "lineEnd" \in DOMAIN mention_data
                  THEN mention_data.lineEnd ELSE 0]

Commands == {"claude-code.explain", "claude-code.improve", "claude-code.fix",
             "claude-code.at-mention", "claude-code.other"}
QuietHandlers == {"did_open", "did_change", "did_save", "did_close", "hover",
                  "completion"}

code_action(range) ==
    /\ running /\ lspPc = "serving"
    /\ Len(lsp.answered) < MaxLspRequests
    /\ log' = bus_send("selection_changed",
                       code_action_notification(lsp.file, range))
    /\ lsp' = [lsp EXCEPT !.answered =
                 Append(@, Answer([kind |-> "code_action", range |-> range],
                                  Len(log), Sent(log, log'), Len(log')))]
    /\ UNCHANGED <<lifeVars, sender, conn, frames>>
    /\ UNCHANGED opVars
    /\ UNCHANGED <<replica, txt, inbox>>

\* selection_range: entering the handler, one turn of its loop, its return.
selection_range_begin(positions) ==
    /\ running /\ lspPc = "serving"
    /\ lsp.req = NoRequest
    /\ Len(lsp.answered) < MaxLspRequests
    /\ lsp' = [lsp EXCEPT
                 !.req = [kind |-> "selection_range", positions |-> positions],
                 !.done = 0, !.first = Len(log), !.events = <<>>]
    /\ UNCHANGED <<lifeVars, busVars>>
    /\ UNCHANGED opVars
    /\ UNCHANGED <<replica, txt, inbox>>

selection_range_step ==
    /\ running /\ lspPc = "serving"
    /\ lsp.req # NoRequest
    /\ lsp.done < Len(lsp.req.positions)
    /\ log' = bus_send("selection_changed",
                       selection_range_notification(
                           lsp.file, lsp.req.positions[lsp.done + 1]))
    /\ lsp' = [lsp EXCEPT !.done = @ + 1,
                          !.events = @ \o Sent(log, log')]
    /\ UNCHANGED <<lifeVars, sender, conn, frames>>
    /\ UNCHANGED opVars
    /\ UNCHANGED <<replica, txt, inbox>>

selection_range_return ==
    /\ running /\ lspPc = "serving"
    /\ lsp.req # NoRequest
    /\ lsp.done = Len(lsp.req.positions)
    /\ lsp' = [lsp EXCEPT
                 !.req = NoRequest, !.done = 0, !.first = 0, !.events = <<>>,
                 !.answered = Append(@, Answer(lsp.req, lsp.first, lsp.events,
                                               Len(log)))]
    /\ UNCHANGED <<lifeVars, busVars>>
    /\ UNCHANGED opVars
    /\ UNCHANGED <<replica, txt, inbox>>

execute_command(command, arguments) ==
    /\ running /\ lspPc = "serving"
    /\ Len(lsp.answered) < MaxLspRequests
    /\ LET args == first_argument(arguments)
       IN log' = IF command = "claude-code.at-mention" /\ args # <<>>
                 THEN bus_send("at_mentioned",
                               at_mentioned_notification(args[1]))
                 ELSE log
    /\ lsp' = [lsp EXCEPT !.answered =
                 Append(@, Answer([kind |-> "execute_command",
                                   command |-> command,
                                   arguments |-> arguments],
                                  Len(log), Sent(log, log'), Len(log')))]
    /\ UNCHANGED <<lifeVars, sender, conn, frames>>
    /\ UNCHANGED opVars
    /\ UNCHANGED <<replica, txt, inbox>>

\* did_open, did_change, did_save, did_close, hover, completion: they log,
\* and answer, and touch nothing else.
quiet_handler(kind) ==
    /\ running /\ lspPc = "serving"
    /\ Len(lsp.answered) < MaxLspRequests
    /\ lsp' = [lsp EXCEPT !.answered =
                 Append(@, Answer([kind |-> kind], Len(log), <<>>, Len(log)))]
    /\ UNCHANGED <<lifeVars, busVars>>
    /\ UNCHANGED opVars
    /\ UNCHANGED <<replica, txt, inbox>>

\* ------------------------------------------------------------ sample inputs
\* The line and the file of the specification's examples.
ExampleLine == <<"a", "emoji", "b">>
ExampleFile == File(<<(<<"f", "o", "o">>), (<<"b", "a", "r", "b", "a", "z">>),
                      (<<"q", "u", "x">>)>>)
\* What the front-end publishes in the bus scenarios.
SelA == code_action_notification(ExampleFile,
                                 Range(Position(0, 1), Position(2, 2)))
SelB == selection_range_notification(ExampleFile, Position(1, 0))
Mention == at_mentioned_notification(
               [filePath |-> "f.rs", lineStart |-> 3, lineEnd |-> 4])

\* ------------------------------------------------------------ specification
Init ==
    /\ shutdown_sender \in BOOLEAN
    /\ port \in {NoPort} \cup ModelPorts
    /\ busy \in (SUBSET (ModelPorts \ {DEFAULT_PORT_START + PortSpan})) \cup {AllPorts}
    /\ lock \in [ModelPorts -> {"absent", "stale"}]
    /\ initial_ppid \in {INIT_PID, 700}
    /\ ppid = initial_ppid
    /\ current_ppid = 0
    /\ wsPc = "start" /\ listener = NoPort /\ actual_port = NoPort
    /\ port_sent = NoPort /\ ctrlcPc = "idle"
    /\ wdPc = "sleep" /\ polls = 0 /\ shutdown = FALSE /\ signals = 0
    /\ lspPc = "serving" /\ coordPc = "waiting" /\ exit = "running"
    /\ removals = 0
    /\ log = <<>> /\ sender = TRUE
    /\ conn = [c \in ConnIds |-> NoConn]
    /\ frames = 0
    /\ port_start = DEFAULT_PORT_START /\ port_end = DEFAULT_PORT_END
    /\ ide_dir \in BOOLEAN
    /\ ~ide_dir => \A p \in ModelPorts : lock[p] = "absent"
    /\ ops = <<>>
    /\ replica = [c \in ConnIds |-> NoReplica]
    /\ lsp = NoLsp /\ txt = NoTxt /\ inbox = <<>>

Next ==
    \/ WsBind
    \/ WsCleanStale
    \/ WsCreateLock
    \/ \E c \in ConnIds : Accept(c)
    \/ AcceptError
    \/ CtrlCCleanup
    \/ CtrlCExit
    \/ ParentDies
    \/ WdPoll
    \/ WdGraceTimeout
    \/ LspEnd
    \/ CoordStop
    \/ CoordCleanup
    \/ CoordExit

Spec == Init /\ [][Next]_vars

\* The watchdog task is scheduled and its timers expire.
LiveSpec == Spec /\ WF_vars(WdPoll) /\ WF_vars(WdGraceTimeout)

\* The server after startup, serving connections while the editor publishes.
BusInit ==
    /\ shutdown_sender = TRUE
    /\ port = NoPort
    /\ busy = {}
    /\ lock = [p \in ModelPorts |-> IF p = DEFAULT_PORT_START THEN "own" ELSE "absent"]
    /\ initial_ppid = 700
    /\ ppid = initial_ppid
    /\ current_ppid = 0
    /\ wsPc = "accepting" /\ listener = DEFAULT_PORT_START
    /\ actual_port = DEFAULT_PORT_START /\ port_sent = DEFAULT_PORT_START
    /\ ctrlcPc = "armed"
    /\ wdPc = "sleep" /\ polls = 0 /\ shutdown = FALSE /\ signals = 0
    /\ lspPc = "serving" /\ coordPc = "waiting" /\ exit = "running"
    /\ removals = 0
    /\ log = <<>> /\ sender = TRUE
    /\ conn = [c \in ConnIds |-> NoConn]
    /\ frames = 0
    /\ port_start = DEFAULT_PORT_START /\ port_end = DEFAULT_PORT_END
    /\ ide_dir = TRUE
    /\ ops = <<>>
    /\ replica = [c \in ConnIds |-> NoReplica]
    /\ lsp = NoLsp /\ txt = NoTxt /\ inbox = <<>>

BusNext ==
    \/ \E c \in ConnIds : Accept(c)
    \/ \E c \in ConnIds : HandshakeOk(c)
    \/ \E c \in ConnIds : HandshakeFail(c)
    \/ Publish("selection_changed", SelA)
    \/ \E c \in ConnIds : Forward(c)
    \/ \E c \in ConnIds, f \in BusFrames : RecvFrame(c, f)
    \/ LspEnd

BusSpec == BusInit /\ [][BusNext]_vars

\* One connection, already open, with one published event not yet forwarded,
\* reading whatever a client may send.
ReqInit ==
    /\ shutdown_sender = TRUE
    /\ port = NoPort
    /\ busy = {}
    /\ lock = [p \in ModelPorts |-> IF p = DEFAULT_PORT_START THEN "own" ELSE "absent"]
    /\ initial_ppid = 700
    /\ ppid = initial_ppid
    /\ current_ppid = 0
    /\ wsPc = "accepting" /\ listener = DEFAULT_PORT_START
    /\ actual_port = DEFAULT_PORT_START /\ port_sent = DEFAULT_PORT_START
    /\ ctrlcPc = "armed"
    /\ wdPc = "sleep" /\ polls = 0 /\ shutdown = FALSE /\ signals = 0
    /\ lspPc = "serving" /\ coordPc = "waiting" /\ exit = "running"
    /\ removals = 0
    /\ log = <<Event(1, "selection_changed", SelA)>> /\ sender = TRUE
    /\ conn = [c \in ConnIds |->
                IF c = 1 THEN [NoConn EXCEPT !.state = "open", !.rx = 0]
                ELSE NoConn]
    /\ frames = 0
    /\ port_start = DEFAULT_PORT_START /\ port_end = DEFAULT_PORT_END
    /\ ide_dir = TRUE
    /\ ops = <<>>
    /\ replica = [c \in ConnIds |->
                   IF c = 1 THEN [NoReplica EXCEPT !.rx = 0, !.task = "running"]
                   ELSE NoReplica]
    /\ lsp = NoLsp /\ txt = NoTxt /\ inbox = <<>>

ReqNext ==
    \/ \E c \in ConnIds, f \in Frames : RecvFrame(c, f)
    \/ \E c \in ConnIds : Forward(c)

ReqSpec == ReqInit /\ [][ReqNext]_vars

\* Startup with any requested port, any range and any ports taken.
AllocInit ==
    /\ shutdown_sender = TRUE
    /\ port \in {NoPort} \cup AllocPorts
    /\ port_start \in AllocPorts /\ port_end \in AllocPorts
    /\ busy \in SUBSET AllocPorts
    /\ ide_dir \in BOOLEAN
    /\ lock \in [AllocPorts -> {"absent", "stale"}]
    /\ \A p \in AllocPorts :
          lock[p] = "stale" => (ide_dir /\ p = DEFAULT_PORT_START + 1)
    /\ initial_ppid = 700
    /\ ppid = initial_ppid
    /\ current_ppid = 0
    /\ wsPc = "start" /\ listener = NoPort /\ actual_port = NoPort
    /\ port_sent = NoPort /\ ctrlcPc = "idle"
    /\ wdPc = "sleep" /\ polls = 0 /\ shutdown = FALSE /\ signals = 0
    /\ lspPc = "serving" /\ coordPc = "waiting" /\ exit = "running"
    /\ removals = 0
    /\ log = <<>> /\ sender = TRUE
    /\ conn = [c \in ConnIds |-> NoConn]
    /\ frames = 0
    /\ ops = <<>>
    /\ replica = [c \in ConnIds |-> NoReplica]
    /\ lsp = NoLsp /\ txt = NoTxt /\ inbox = <<>>

AllocNext ==
    \/ WsBind
    \/ WsCleanStale
    \/ WsCreateLock

AllocSpec == AllocInit /\ [][AllocNext]_vars

\* -------------------------------------------------------- lock-file calls
\* One server run after another on the same discovery directory: the calls of
\* run_websocket_server_full at startup (cleanup_lock_file, then
\* create_lock_file with a fresh token) and at shutdown (cleanup_lock_file).
Op(name, p, token, err) == [name |-> name, p |-> p, token |-> token, err |-> err]

StartupCreatesLock(p, token) ==
    /\ Len(ops) < MaxOps
    /\ \E okRemove \in BOOLEAN, okWrite \in BOOLEAN :
        IF cleanup_fails(ide_dir, lock, p, okRemove)
        THEN /\ okWrite
             /\ UNCHANGED <<lock, ide_dir>>
             /\ ops' = Append(ops, Op("create", p, token, TRUE))
        ELSE LET cleaned == cleanup_lock_file(ide_dir, lock, p, okRemove)
             IN IF okWrite
                THEN /\ lock' = create_lock_file(cleaned, p, token)
                     /\ ide_dir' = TRUE
                     /\ ops' = Append(ops, Op("create", p, token, FALSE))
                ELSE /\ lock' = cleaned
                     /\ ide_dir' \in {ide_dir, TRUE}
                     /\ ops' = Append(ops, Op("create", p, token, TRUE))
    /\ UNCHANGED <<lifeVars_but_lock, busVars, port_start, port_end>>
    /\ UNCHANGED selVars

ShutdownRemovesLock(p) ==
    /\ Len(ops) < MaxOps
    /\ \E ok \in BOOLEAN :
        /\ lock' = cleanup_lock_file(ide_dir, lock, p, ok)
        /\ ops' = Append(ops, Op("remove", p, "", cleanup_fails(ide_dir, lock, p, ok)))
    /\ UNCHANGED <<lifeVars_but_lock, busVars, port_start, port_end, ide_dir>>
    /\ UNCHANGED selVars

LockInit ==
    /\ shutdown_sender = TRUE
    /\ port = NoPort
    /\ port_start = DEFAULT_PORT_START /\ port_end = DEFAULT_PORT_END
    /\ busy = {}
    /\ ide_dir \in BOOLEAN
    /\ lock \in [ModelPorts -> {"absent", "stale"}]
    /\ ~ide_dir => \A p \in ModelPorts : lock[p] = "absent"
    /\ initial_ppid = 700
    /\ ppid = initial_ppid
    /\ current_ppid = 0
    /\ wsPc = "start" /\ listener = NoPort /\ actual_port = NoPort
    /\ port_sent = NoPort /\ ctrlcPc = "idle"
    /\ wdPc = "sleep" /\ polls = 0 /\ shutdown = FALSE /\ signals = 0
    /\ lspPc = "serving" /\ coordPc = "waiting" /\ exit = "running"
    /\ removals = 0
    /\ log = <<>> /\ sender = TRUE
    /\ conn = [c \in ConnIds |-> NoConn]
    /\ frames = 0
    /\ ops = <<>>
    /\ replica = [c \in ConnIds |-> NoReplica]
    /\ lsp = NoLsp /\ txt = NoTxt /\ inbox = <<>>

LockNext ==
    \/ \E p \in ModelPorts, token \in Tokens : StartupCreatesLock(p, token)
    \/ \E p \in ModelPorts : ShutdownRemovesLock(p)

LockSpec == LockInit /\ [][LockNext]_vars

\* ------------------------------------------------ selection replicas
\* The server after startup, not yet serving anything.
Serving ==
    /\ shutdown_sender = TRUE
    /\ port = NoPort
    /\ busy = {}
    /\ lock = [p \in ModelPorts |-> IF p = DEFAULT_PORT_START THEN "own" ELSE "absent"]
    /\ initial_ppid = 700
    /\ ppid = initial_ppid
    /\ current_ppid = 0
    /\ wsPc = "accepting" /\ listener = DEFAULT_PORT_START
    /\ actual_port = DEFAULT_PORT_START /\ port_sent = DEFAULT_PORT_START
    /\ ctrlcPc = "armed"
    /\ wdPc = "sleep" /\ polls = 0 /\ shutdown = FALSE /\ signals = 0
    /\ lspPc = "serving" /\ coordPc = "waiting" /\ exit = "running"
    /\ removals = 0
    /\ sender = TRUE
    /\ frames = 0
    /\ port_start = DEFAULT_PORT_START /\ port_end = DEFAULT_PORT_END
    /\ ide_dir = TRUE
    /\ ops = <<>>

\* Connections with their replicas, while the editor publishes selections
\* and mentions and the clients ask for the selection.
SelFrames ==
    {Msg("end"),
     Request(1, "tools/call", "named", "getCurrentSelection")}

SelInit ==
    /\ Serving
    /\ log = <<>>
    /\ conn = [c \in ConnIds |-> NoConn]
    /\ replica = [c \in ConnIds |-> NoReplica]
    /\ lsp = NoLsp /\ txt = NoTxt /\ inbox = <<>>

SelNext ==
    \/ \E c \in ConnIds : Accept(c)
    \/ \E c \in ConnIds : HandshakeOk(c)
    \/ Publish("selection_changed", SelA)
    \/ Publish("selection_changed", SelB)
    \/ Publish("at_mentioned", Mention)
    \/ \E c \in ConnIds : ReplicaRecv(c)
    \/ \E c \in ConnIds, f \in SelFrames : RecvFrame(c, f)

SelSpec == SelInit /\ [][SelNext]_vars

\* ------------------------------------------------------------ tool calls
\* One open connection whose replica has one selection to read, and a client
\* calling tools.
ToolFrames ==
    {Request(i, "tools/call", "named", n) : i \in {NoId, 1}, n \in ToolNames}
    \cup {Request(1, "tools/call", "unnamed", ""),
          Request(1, "tools/list", "none", "")}

ToolInit ==
    /\ Serving
    /\ log = <<Event(1, "selection_changed", SelA)>>
    /\ conn = [c \in ConnIds |->
                IF c = 1 THEN [NoConn EXCEPT !.state = "open", !.rx = 0]
                ELSE NoConn]
    /\ replica = [c \in ConnIds |->
                   IF c = 1 THEN [NoReplica EXCEPT !.rx = 0, !.task = "running"]
                   ELSE NoReplica]
    /\ lsp = NoLsp /\ txt = NoTxt /\ inbox = <<>>

ToolNext ==
    \/ \E c \in ConnIds, f \in ToolFrames : RecvFrame(c, f)
    \/ \E c \in ConnIds : ReplicaRecv(c)
    \/ \E c \in ConnIds : Forward(c)

ToolSpec == ToolInit /\ [][ToolNext]_vars

\* ------------------------------------------------------------ LSP requests
LspFiles == {Unreadable, ExampleFile}
\* The ranges of the code-action requests: several lines, an empty range,
\* and single-line ranges past the last line, starting past the end of the
\* line, ending past it, and ending before they start.
LspRanges ==
    {Range(Position(0, 1), Position(2, 2)),
     Range(Position(1, 0), Position(1, 0)),
     Range(Position(3, 0), Position(3, 1)),
     Range(Position(0, 4), Position(0, 5)),
     Range(Position(0, 1), Position(0, 4)),
     Range(Position(0, 2), Position(0, 1))}
LspPositions ==
    {<<>>, <<Position(0, 1)>>, <<Position(1, 2), Position(0, 0)>>}
\* The arguments of an executeCommand request: none, all fields, an object
\* without the fields, one field and a second argument.
MentionArguments ==
    {<<>>,
     <<[filePath |-> "f.rs", lineStart |-> 3, lineEnd |-> 4]>>,
     <<[other |-> 0]>>,
     <<[lineEnd |-> 9], [filePath |-> "g.rs"]>>}
\* The executeCommand requests: the at-mention command with any of these
\* arguments, every other command with none and with all fields.
ExecuteCommands ==
    {<<"claude-code.at-mention", a>> : a \in MentionArguments}
    \cup {<<c, a>> : c \in Commands \ {"claude-code.at-mention"},
                     a \in {<<>>, <<[filePath |-> "f.rs", lineStart |-> 3,
                                     lineEnd |-> 4]>>}}

LspInit ==
    /\ Serving
    /\ log = <<>>
    /\ conn = [c \in ConnIds |-> NoConn]
    /\ replica = [c \in ConnIds |-> NoReplica]
    /\ lsp \in {Backend(f) : f \in LspFiles}
    /\ txt = NoTxt /\ inbox = <<>>

LspNext ==
    \/ \E range \in LspRanges : code_action(range)
    \/ \E positions \in LspPositions : selection_range_begin(positions)
    \/ selection_range_step
    \/ selection_range_return
    \/ \E x \in ExecuteCommands : execute_command(x[1], x[2])
    \/ \E kind \in QuietHandlers : quiet_handler(kind)

LspSpec == LspInit /\ [][LspNext]_vars

\* ------------------------------------------------------------ text extraction
\* One call of char_pos_to_byte_pos or read_text_from_range on any of the
\* arguments below.
Lines == UNION {[1 .. n -> Chars] : n \in 0 .. MaxLen}
Offsets == 0 .. (2 * MaxLen + 1)
FileLines == {<<>>, <<"a", "b">>, <<"emoji", "a">>, <<"eacute">>}
Files ==
    {Unreadable, ExampleFile}
    \cup {File(ls) : ls \in UNION {[1 .. n -> FileLines] : n \in 0 .. MaxLines}}
Ranges ==
    {Range(Position(l1, c1), Position(l2, c2)) :
        l1 \in 0 .. MaxLines, c1 \in 0 .. MaxLen,
        l2 \in 0 .. MaxLines, c2 \in 0 .. MaxLen}

call_char_pos_to_byte_pos ==
    /\ txt.op = "char_pos_to_byte_pos" /\ ~txt.done
    /\ txt' = [txt EXCEPT
                 !.done = TRUE,
                 !.mapped = char_pos_to_byte_pos(txt.line, txt.utf16_pos)]
    /\ UNCHANGED <<lifeVars, busVars>>
    /\ UNCHANGED opVars
    /\ UNCHANGED <<replica, lsp, inbox>>

call_read_text_from_range ==
    /\ txt.op = "read_text_from_range" /\ ~txt.done
    /\ txt' = [txt EXCEPT
                 !.done = TRUE,
                 !.text = read_text_from_range(txt.file, txt.range),
                 !.bytes = single_line_bytes(txt.file, txt.range)]
    /\ UNCHANGED <<lifeVars, busVars>>
    /\ UNCHANGED opVars
    /\ UNCHANGED <<replica, lsp, inbox>>

TextInit ==
    /\ Serving
    /\ log = <<>>
    /\ conn = [c \in ConnIds |-> NoConn]
    /\ replica = [c \in ConnIds |-> NoReplica]
    /\ lsp = NoLsp /\ inbox = <<>>
    /\ \/ txt \in {[TxtCall EXCEPT !.op = "char_pos_to_byte_pos",
                                    !.line = l, !.utf16_pos = k] :
                       l \in Lines, k \in Offsets}
       \/ txt \in {[TxtCall EXCEPT !.op = "read_text_from_range",
                                    !.file = f, !.range = r] :
                       f \in Files, r \in Ranges}

TextNext ==
    \/ call_char_pos_to_byte_pos
    \/ call_read_text_from_range

TextSpec == TextInit /\ [][TextNext]_vars

\* ------------------------------------------------------------ the select! loop
\* One open connection whose client writes frames while the editor publishes;
\* the connection task is polled for either branch of its select!.
MuxFrames ==
    {Msg("end"), Msg("binary"), Request(1, "tools/list", "none", "")}

MuxInit ==
    /\ Serving
    /\ log = <<>>
    /\ conn = [c \in ConnIds |->
                IF c = 1 THEN [NoConn EXCEPT !.state = "open", !.rx = 0]
                ELSE NoConn]
    /\ replica = [c \in ConnIds |->
                   IF c = 1 THEN [NoReplica EXCEPT !.rx = 0, !.task = "running"]
                   ELSE NoReplica]
    /\ lsp = NoLsp /\ txt = NoTxt /\ inbox = <<>>

MuxNext ==
    \/ Publish("selection_changed", SelA)
    \/ \E c \in ConnIds, f \in MuxFrames : ClientSend(c, f)
    \/ \E c \in ConnIds : RecvQueued(c)
    \/ \E c \in ConnIds : Forward(c)
    \/ \E c \in ConnIds : ReplicaRecv(c)

\* select! polls its branches in random order: a branch that stays ready is
\* taken after finitely many rounds.
select_fairness_socket_first ==
    \A c \in ConnIds : WF_vars(RecvQueued(c))
select_fairness ==
    \A c \in ConnIds : WF_vars(RecvQueued(c)) /\ WF_vars(Forward(c))

MuxSpec == MuxInit /\ [][MuxNext]_vars /\ select_fairness

\* ------------------------------------------------------------ two servers
\* A second server process running the same code on the same discovery
\* directory, seen from this one: it binds a free port (then in busy), writes
\* that port's lock file ("other") after removing what was there, and on its
\* shutdown removes the file of its port and exits.
OtherPort == busy \cap ModelPorts
OtherBind(preferred_port) ==
    /\ busy = {}
    /\ LET p == find_available_port(preferred_port, port_start, port_end,
                                    {listener} \ {NoPort})
       IN /\ p \in ModelPorts
          /\ busy' = {p}
    /\ UNCHANGED <<shutdown_sender, port, lock, ppid, wsPc, listener,
                   actual_port, port_sent, ctrlcPc, initial_ppid, current_ppid,
                   wdPc, polls, shutdown, signals, lspPc, coordPc, exit,
                   removals, busVars>>
    /\ UNCHANGED opVars
    /\ UNCHANGED selVars

OtherCreateLock(p) ==
    /\ p \in OtherPort /\ lock[p] # "other"
    /\ lock' = create_lock_file(cleanup_lock_file(ide_dir, lock, p, TRUE),
                                p, "other")
    /\ ide_dir' = TRUE
    /\ UNCHANGED lifeVars_but_lock
    /\ UNCHANGED <<busVars, port_start, port_end, ops>>
    /\ UNCHANGED selVars

OtherShutdown(p) ==
    /\ p \in OtherPort /\ lock[p] = "other"
    /\ lock' = cleanup_lock_file(ide_dir, lock, p, TRUE)
    /\ busy' = busy \ {p}
    /\ UNCHANGED <<shutdown_sender, port, ppid, wsPc, listener,
                   actual_port, port_sent, ctrlcPc, initial_ppid, current_ppid,
                   wdPc, polls, shutdown, signals, lspPc, coordPc, exit,
                   removals, busVars>>
    /\ UNCHANGED opVars
    /\ UNCHANGED selVars

PairInit ==
    /\ shutdown_sender = TRUE
    /\ port \in {NoPort} \cup ModelPorts
    /\ busy = {}
    /\ lock = [p \in ModelPorts |-> "absent"]
    /\ initial_ppid = 700
    /\ ppid = initial_ppid
    /\ current_ppid = 0
    /\ wsPc = "start" /\ listener = NoPort /\ actual_port = NoPort
    /\ port_sent = NoPort /\ ctrlcPc = "idle"
    /\ wdPc = "sleep" /\ polls = 0 /\ shutdown = FALSE /\ signals = 0
    /\ lspPc = "serving" /\ coordPc = "waiting" /\ exit = "running"
    /\ removals = 0
    /\ log = <<>> /\ sender = TRUE
    /\ conn = [c \in ConnIds |-> NoConn]
    /\ frames = 0
    /\ port_start = DEFAULT_PORT_START /\ port_end = DEFAULT_PORT_END
    /\ ide_dir \in BOOLEAN
    /\ ops = <<>>
    /\ replica = [c \in ConnIds |-> NoReplica]
    /\ lsp = NoLsp /\ txt = NoTxt /\ inbox = <<>>

PairNext ==
    \/ WsBind \/ WsCleanStale \/ WsCreateLock
    \/ AcceptError
    \/ CtrlCCleanup \/ CtrlCExit
    \/ \E q \in {NoPort} \cup ModelPorts : OtherBind(q)
    \/ \E p \in ModelPorts : OtherCreateLock(p)
    \/ \E p \in ModelPorts : OtherShutdown(p)

PairSpec == PairInit /\ [][PairNext]_vars

\* ------------------------------------------------------------------ claims
OwnLock == {p \in ModelPorts : lock[p] = "own"}
LockWritten == ctrlcPc # "idle"
WatchdogDetected == wdPc # "sleep" \/ exit = "watchdog"
\* Shutdown has begun: a signal was sent, a cleanup ran, or the server task ended.
ShutdownWindow ==
    \/ shutdown
    \/ ctrlcPc = "cleaned"
    \/ coordPc # "waiting"
    \/ wsPc \in {"returned", "failed", "aborted"}
StartupWindow == wsPc \in {"bound", "cleaned"}

\* C1: once the process has exited, no lock file written by it is left, on
\* whichever path it exited.
C1_LockRemovedBeforeExit == exit # "running" => OwnLock = {}

C3_LockNamesBoundPort ==
    \A p \in ModelPorts :
        lock[p] = "own" =>
            /\ p = actual_port
            /\ p \notin busy
            /\ wsPc \notin {"start", "bound", "cleaned"}

C3_Witness ==
    /\ port \in ModelPorts /\ port # actual_port
    /\ actual_port \in OwnLock

\* C4: when the process has exited after the watchdog saw the parent die and
\* the lock file had been written, exactly one shutdown signal was sent and
\* the lock file was removed exactly once.
C4_OneSignalOneRemoval ==
    (exit # "running" /\ WatchdogDetected /\ LockWritten) =>
        (signals = 1 /\ removals = 1)

\* C5: after detection the watchdog, given a channel, has sent exactly one
\* signal and is in or past the grace sleep, and past it the process has been
\* force-terminated; without a channel the process has exited at detection;
\* and a process in the grace sleep eventually exits, whatever the teardown
\* does.
C5_WatchdogEndsProcess ==
    /\ [](current_ppid # 0 /\ parent_presumed_dead(current_ppid, initial_ppid)
            => IF shutdown_sender
               THEN signals = 1 /\ shutdown /\ wdPc \in {"grace", "done"}
               ELSE exit = "watchdog" /\ signals = 0)
    /\ [](wdPc = "done" => exit = "watchdog_forced")
    /\ ((wdPc = "grace") ~> (exit # "running"))

C5_Witness == exit = "watchdog_forced" /\ coordPc = "stopping" /\ OwnLock # {}

\* C6: after a poll the watchdog has presumed the parent dead exactly when the
\* parent id it read differs from the recorded one or is the init process's;
\* otherwise it has sent nothing and sleeps again.
C6_PresumedDeadExactly ==
    current_ppid # 0 =>
        /\ WatchdogDetected <=>
             (current_ppid # initial_ppid \/ current_ppid = INIT_PID)
        /\ ~WatchdogDetected => (signals = 0 /\ ~shutdown /\ wdPc = "sleep")

C6_Witness ==
    /\ polls >= 1 /\ wdPc = "grace"
    /\ current_ppid # initial_ppid /\ current_ppid # INIT_PID

\* C7: the lock file is removed only once the listener is closed, it is
\* removed at most once, and no connection is accepted after its removal.
C7_ShutdownOrder ==
    [][/\ removals' > removals => listener = NoPort
       /\ removals' <= 1
       /\ removals > 0 => conn' = conn]_vars

\* The notification frames written to connection c's socket, in order.
Notifs(c) == SelectSeq(conn[c].sent, LAMBDA x : x.kind = "notification")
\* The events published after connection c subscribed.
PublishedSince(c) ==
    [i \in 1 .. (Len(log) - conn[c].subAt) |-> log[conn[c].subAt + i]]
Subscribed(c) == conn[c].state \in {"handshake", "open"}
\* Nothing is waiting to be forwarded to c.
Drained(c) == conn[c].rx = NoRx \/ conn[c].rx = Len(log)

\* C8: the notification frames sent on a connection are events published after
\* its subscription was created, in publish order, none twice, none skipped.
C8_NoReplayInOrder ==
    \A c \in ConnIds :
        Subscribed(c) =>
            \A i \in 1 .. Len(Notifs(c)) :
                /\ conn[c].subAt + i <= Len(log)
                /\ Notifs(c)[i].id = log[conn[c].subAt + i]

C8_Witness ==
    \E c \in ConnIds :
        /\ conn[c].state = "open" /\ conn[c].subAt >= 1
        /\ Len(Notifs(c)) >= 1

\* C9 (as stated): every subscriber with nothing left to forward has been sent
\* every event published after its own subscription, in publish order.
C9_FanOutComplete ==
    \A c \in ConnIds :
        (conn[c].state = "open" /\ Drained(c)) =>
            [i \in 1 .. Len(Notifs(c)) |-> Notifs(c)[i].id] = PublishedSince(c)

\* C9 (amended): the same for every subscriber that never had more than the
\* bus capacity of events unread.
C9_FanOutCompleteUnlessOverrun ==
    \A c \in ConnIds :
        (conn[c].state = "open" /\ Drained(c) /\ ~conn[c].overrun) =>
            [i \in 1 .. Len(Notifs(c)) |-> Notifs(c)[i].id] = PublishedSince(c)

\* Two subscribers, one created between E1 and E2: the first got both, the
\* second only E2.
C9_Witness ==
    /\ Len(log) = 2
    /\ conn[1].state = "open" /\ conn[1].subAt = 0 /\ Len(Notifs(1)) = 2
    /\ conn[2].state = "open" /\ conn[2].subAt = 1 /\ Len(Notifs(2)) = 1
    /\ Notifs(2)[1].id.n = 2

\* C10: a connection whose receiver reported lag or closed has no receiver
\* any more, every frame sent on it since is a response, and no connection
\* ever ends because of the bus.
C10_LagKeepsConnection ==
    \A c \in ConnIds :
        /\ conn[c].why # "bus_error"
        /\ (conn[c].state = "open" /\ conn[c].rxEnd # "none") =>
              /\ conn[c].rx = NoRx
              /\ \A i \in (conn[c].dropAt + 1) .. Len(conn[c].sent) :
                    conn[c].sent[i].kind = "response"
        /\ (conn[c].state = "open" /\ conn[c].rx = NoRx) =>
              conn[c].rxEnd \in {"lagged", "closed"}

C10_Witness ==
    \E c \in ConnIds :
        /\ conn[c].state = "open" /\ conn[c].rxEnd = "lagged"
        /\ Len(conn[c].sent) > conn[c].dropAt
        /\ Len(log) > conn[c].subAt + Len(Notifs(c))

\* The response frames written to connection c's socket, in order.
Replies(c) == SelectSeq(conn[c].sent, LAMBDA x : x.kind = "response")
Handled(c) == 1 .. Len(conn[c].rcvd)
Open(c) == conn[c].state = "open"
FailingCall(m) ==
    m.t = "request" /\ m.method = "tools/call" /\ m.params \in {"none", "unnamed"}
ClientNotification(m) ==
    m.t = "request" /\ m.id = NoId /\ m.method \in NotificationMethods

\* C11: a connection's loop has ended only because the peer closed the stream
\* or a receive or a send failed (or the handshake never completed); every
\* frame handled on an open connection, however bad, left it open.
C11_BadRequestKeepsLoop ==
    \A c \in ConnIds :
        conn[c].state = "closed" =>
            conn[c].why \in {"handshake", "peer_close", "recv_error", "send_error"}

C11_Witness ==
    \E c \in ConnIds :
        /\ Open(c) /\ Len(conn[c].rcvd) = 2
        /\ conn[c].rcvd[1].msg.t = "malformed"
        /\ FailingCall(conn[c].rcvd[2].msg)

\* C12: every response sent for a decoded request carries that request's id
\* and exactly one of result and error.
C12_ResponseEchoesId ==
    \A c \in ConnIds : \A j \in Handled(c) :
        LET h == conn[c].rcvd[j]
        IN (h.msg.t = "request" /\ h.reply # <<>>) =>
              /\ h.reply[1].id = h.msg.id
              /\ h.reply[1].result # h.reply[1].error

\* C13: a text frame that does not decode is answered with exactly one
\* response, an error with code -32700 and no result, and the connection
\* goes on to serve later frames.
C13_ParseErrorAnswered ==
    \A c \in ConnIds :
        /\ Len(Replies(c)) = Cardinality({j \in Handled(c) : conn[c].rcvd[j].reply # <<>>})
        /\ \A j \in Handled(c) :
              conn[c].rcvd[j].msg.t = "malformed" =>
                  /\ Len(conn[c].rcvd[j].reply) = 1
                  /\ conn[c].rcvd[j].reply[1].code = -32700
                  /\ conn[c].rcvd[j].reply[1].error
                  /\ ~conn[c].rcvd[j].reply[1].result
                  /\ ~conn[c].rcvd[j].ran

C13_Witness ==
    \E c \in ConnIds :
        /\ Open(c) /\ Len(conn[c].rcvd) = 2
        /\ conn[c].rcvd[1].msg.t = "malformed"
        /\ conn[c].rcvd[2].msg.t = "request"
        /\ Len(Replies(c)) = 2 /\ Replies(c)[2].result

\* C14 (as stated): a decoded request whose method is none of the six known
\* ones is answered with error -32601 and no result, and no handler ran.
C14_MethodNotFound ==
    \A c \in ConnIds : \A j \in Handled(c) :
        LET h == conn[c].rcvd[j]
        IN (h.msg.t = "request" /\ h.msg.method \notin KnownMethods) =>
              /\ Len(h.reply) = 1
              /\ h.reply[1].code = -32601 /\ h.reply[1].error
              /\ ~h.reply[1].result
              /\ ~h.ran

\* C14 (amended): the same, except for a request without id whose method is a
\* client notification.
C14_MethodNotFoundUnlessNotification ==
    \A c \in ConnIds : \A j \in Handled(c) :
        LET h == conn[c].rcvd[j]
        IN (h.msg.t = "request" /\ h.msg.method \notin KnownMethods
            /\ ~ClientNotification(h.msg)) =>
              /\ Len(h.reply) = 1
              /\ h.reply[1].code = -32601 /\ h.reply[1].error
              /\ ~h.reply[1].result
              /\ ~h.ran

C14_Witness ==
    \E c \in ConnIds :
        /\ Open(c) /\ Len(conn[c].rcvd) = 2
        /\ conn[c].rcvd[1].msg.method = "resources/list"
        /\ conn[c].rcvd[2].msg.method = "notifications/initialized"
        /\ conn[c].rcvd[2].msg.id # NoId
        /\ Len(Replies(c)) = 2

\* C15: a tools/call request without params or without a tool name is answered
\* with error -32603 whose data carries the failure detail, and a later valid
\* request on the same connection gets its result.
C15_HandlerFailureAnswered ==
    \A c \in ConnIds : \A j \in Handled(c) :
        LET h == conn[c].rcvd[j]
        IN /\ FailingCall(h.msg) =>
                /\ Len(h.reply) = 1
                /\ h.reply[1].code = -32603 /\ h.reply[1].error
                /\ ~h.reply[1].result
                /\ h.reply[1].data = (IF h.msg.params = "none"
                                      THEN "Missing parameters for tools/call"
                                      ELSE "Missing tool name")
           /\ (h.msg.t = "request" /\ h.msg.method \in KnownMethods
               /\ ~FailingCall(h.msg) /\ h.msg.method # "prompts/get") =>
                /\ Len(h.reply) = 1
                /\ h.reply[1].result /\ ~h.reply[1].error

C15_Witness ==
    \E c \in ConnIds :
        /\ Open(c) /\ Len(conn[c].rcvd) = 2
        /\ FailingCall(conn[c].rcvd[1].msg)
        /\ conn[c].rcvd[2].msg.method = "tools/call"
        /\ conn[c].rcvd[2].msg.params = "named"
        /\ Len(Replies(c)) = 2 /\ Replies(c)[2].result

FreeInRange == {q \in port_start .. port_end : q \notin busy}
PreferredFree == port # NoPort /\ port \notin busy
LastOp == ops[Len(ops)]

\* C17: once the bind was attempted, a free preferred port is the port bound;
\* otherwise the port bound is the lowest free port of the range; and the port
\* bound is never one that was already taken.
C17_PreferredElseLowestFree ==
    wsPc # "start" =>
        /\ PreferredFree => actual_port = port
        /\ (~PreferredFree /\ FreeInRange # {}) =>
              /\ actual_port \in FreeInRange
              /\ \A q \in FreeInRange : actual_port <= q
        /\ actual_port # NoPort => actual_port \notin busy
        /\ wsPc \in {"bound", "cleaned", "accepting"} => listener = actual_port

C17_Witness ==
    /\ wsPc = "accepting"
    /\ port \in busy /\ port_start \in busy
    /\ actual_port = port_start + 1
    /\ port_start + 2 \notin busy /\ port_end >= port_start + 2

\* C18: the allocation fails only when no port of the range is free; with the
\* range [P, P+2] and P taken it yields P+1 or P+2, never P, and fails exactly
\* when all three are taken; and when it fails, startup has failed, nothing
\* listens and no lock file was written.
C18_FailsOnlyWhenExhausted ==
    wsPc # "start" =>
        /\ actual_port = NoPort =>
              /\ FreeInRange = {}
              /\ wsPc = "failed" /\ listener = NoPort /\ ctrlcPc = "idle"
              /\ \A p \in DOMAIN lock : lock[p] # "own"
        /\ (port_end = port_start + 2 /\ port_start \in busy
            /\ port \in {NoPort, port_start}) =>
              /\ actual_port # port_start
              /\ actual_port \in {NoPort, port_start + 1, port_start + 2}
              /\ actual_port = NoPort <=>
                    {port_start, port_start + 1, port_start + 2} \subseteq busy

C18_Witness ==
    /\ wsPc = "failed" /\ actual_port = NoPort
    /\ port_end = port_start + 2
    /\ port = port_start

\* C19: after a successful create for a port, the file of that port exists and
\* holds the token of that create, whatever the file held before: nothing, a
\* file left by a crashed run, or the file of an earlier create.
C19_CreateLeavesNewestToken ==
    (ops # <<>> /\ LastOp.name = "create" /\ ~LastOp.err) =>
        /\ ide_dir
        /\ lock[LastOp.p] = LastOp.token

C19_Witness ==
    /\ Len(ops) = 3
    /\ ops[1].name = "create" /\ ops[2].name = "remove" /\ ops[3].name = "create"
    /\ ops[1].p = ops[3].p /\ ops[2].p = ops[3].p
    /\ ~ops[1].err /\ ~ops[2].err /\ ~ops[3].err
    /\ ops[1].token # ops[3].token
    /\ lock[ops[3].p] = ops[3].token

C21_AcceptFailureKeepsServing == wsPc # "returned"

\* C22: a startup that met a filesystem error has failed: nothing listens, no
\* connection was accepted, no lock file was written and the Ctrl+C task was
\* never armed; a stale file that could not be removed means the startup has
\* failed; and once the Ctrl+C cleanup is over, whether or not the removal
\* succeeded, the exit is the next step of that task.
C22_StartupFatalCleanupTolerant ==
    /\ wsPc = "failed" =>
          /\ listener = NoPort /\ ctrlcPc = "idle"
          /\ \A c \in ConnIds : conn[c].state = "none"
          /\ OwnLock = {}
    /\ (actual_port # NoPort /\ lock[actual_port] = "stale"
        /\ wsPc \notin {"start", "bound"}) => wsPc = "failed"
    /\ (running /\ ctrlcPc = "cleaned") => ENABLED CtrlCExit

C22_Witness ==
    /\ exit = "ctrl_c" /\ OwnLock # {}
    /\ conn[1].state # "none"

\* The selection_changed events published after c's replica subscribed.
SelectionsSince(c) ==
    {i \in (replica[c].subAt + 1) .. Len(log) :
        log[i].method = "selection_changed"}
\* The selection the latest of them carries, if there is one.
LatestSelection(c) ==
    IF SelectionsSince(c) = {} THEN NoSelection
    ELSE <<log[CHOOSE i \in SelectionsSince(c) :
                  \A j \in SelectionsSince(c) : j <= i].params>>
\* c's background task has nothing left to read.
ReplicaIdle(c) == replica[c].rx = NoRx \/ replica[c].rx = Len(log)

\* C23: on an open connection whose replica has nothing left to read, a
\* getCurrentSelection call answers with the latest selection_changed event
\* published since the replica subscribed, or success:false without one.
C23_CallReturnsLatestSelection ==
    \A c \in ConnIds :
        (conn[c].state = "open" /\ ReplicaIdle(c)) =>
            handle_request(
                Request(1, "tools/call", "named", "getCurrentSelection"),
                replica[c].state).response.content
            = get_current_selection(LatestSelection(c))

\* C24: once a connection's task has ended, its replica's background task
\* has ended and holds no receiver, and the receivers alive are at most the
\* server's own and two for each connection not yet ended.
C24_NothingLeftAfterClose ==
    /\ \A c \in ConnIds :
          conn[c].state = "closed" =>
              (replica[c].rx = NoRx /\ replica[c].task # "running")
    /\ receiver_count
          <= 1 + 2 * Cardinality({c \in ConnIds :
                                    conn[c].state \in {"handshake", "open"}})

\* The events the answered requests and the request in progress have published.
Attributed(n) ==
    Cardinality({<<i, j>> \in (1 .. Len(lsp.answered)) \X (1 .. Len(log)) :
                    /\ j <= Len(lsp.answered[i].events)
                    /\ lsp.answered[i].events[j] = n})
    + Cardinality({j \in 1 .. Len(lsp.events) : lsp.events[j] = n})

\* C25: an answered code-action request has published exactly one
\* selection_changed event, carrying its range and the text read for that
\* range; an answered selection-range request has published exactly one per
\* position, in position order; all of them between the handler's start and
\* its response; and every selection_changed event on the bus is one of these.
C25_SelectionEventsPerRequest ==
    /\ \A i \in 1 .. Len(lsp.answered) :
          LET a == lsp.answered[i]
          IN /\ a.req.kind = "code_action" =>
                  /\ Len(a.events) = 1
                  /\ a.first < a.events[1] /\ a.events[1] <= a.at
                  /\ log[a.events[1]].method = "selection_changed"
                  /\ log[a.events[1]].params.start = a.req.range.start
                  /\ log[a.events[1]].params.end = a.req.range.end
                  /\ log[a.events[1]].params.text
                        = read_text_from_range(lsp.file, a.req.range)
             /\ a.req.kind = "selection_range" =>
                  /\ Len(a.events) = Len(a.req.positions)
                  /\ \A j \in 1 .. Len(a.events) :
                        /\ a.first < a.events[j] /\ a.events[j] <= a.at
                        /\ j > 1 => a.events[j - 1] < a.events[j]
                        /\ log[a.events[j]].method = "selection_changed"
                        /\ log[a.events[j]].params.start = a.req.positions[j]
    /\ \A n \in 1 .. Len(log) :
          log[n].method = "selection_changed" => Attributed(n) = 1

C25_Witness ==
    /\ Len(lsp.answered) = 2
    /\ lsp.answered[1].req.kind = "code_action"
    /\ lsp.answered[2].req.kind = "selection_range"
    /\ lsp.answered[2].events = <<1, 3>>
    /\ lsp.answered[1].events = <<2>>
    /\ Len(log[2].params.text) > 3

\* C26: an answered executeCommand request has published an at_mentioned
\* event exactly when its command is the at-mention command and it has an
\* argument; the event carries the first argument's filePath, lineStart and
\* lineEnd, "" and 0 for the missing ones; every other executeCommand request
\* and every document, hover and completion request left the bus as it was;
\* and every at_mentioned event on the bus comes from such a request.
C26_AtMentionedOnlyForMention ==
    /\ \A i \in 1 .. Len(lsp.answered) :
          LET a == lsp.answered[i]
          IN /\ a.req.kind = "execute_command" =>
                  /\ (a.events # <<>>) <=>
                        (/\ a.req.command = "claude-code.at-mention"
                         /\ Len(a.req.arguments) >= 1)
                  /\ a.events = <<>> => a.at = a.first
                  /\ a.events # <<>> =>
                        LET e == log[a.events[1]]
                            arg == a.req.arguments[1]
                        IN /\ a.events = <<a.at>> /\ a.at = a.first + 1
                           /\ e.method = "at_mentioned"
                           /\ DOMAIN e.params
                                 = {"file_path", "line_start", "line_end"}
                           /\ e.params.file_path =
                                 (IF "filePath" \in DOMAIN arg
                                  THEN arg.filePath ELSE "")
                           /\ e.params.line_start =
                                 (IF "lineStart" \in DOMAIN arg
                                  THEN arg.lineStart ELSE 0)
                           /\ e.params.line_end =
                                 (IF "lineEnd" \in DOMAIN arg
                                  THEN arg.lineEnd ELSE 0)
             /\ a.req.kind \in {"did_open", "did_change", "did_save",
                                 "did_close", "hover", "completion"} =>
                  (a.events = <<>> /\ a.at = a.first)
    /\ \A n \in 1 .. Len(log) :
          log[n].method = "at_mentioned" =>
              \E i \in 1 .. Len(lsp.answered) :
                  /\ lsp.answered[i].req.kind = "execute_command"
                  /\ lsp.answered[i].events = <<n>>

C26_Witness ==
    /\ Len(lsp.answered) = 2
    /\ lsp.answered[1].req.kind = "execute_command"
    /\ lsp.answered[1].req.command = "claude-code.at-mention"
    /\ lsp.answered[1].req.arguments = <<[other |-> 0]>>
    /\ Len(log) = 1 /\ log[1].params.file_path = ""
    /\ lsp.answered[2].req.kind = "execute_command"
    /\ lsp.answered[2].req.command = "claude-code.at-mention"
    /\ lsp.answered[2].req.arguments = <<>>

\* What line l of the file contributes to a selection over range.
Piece(file, range, l) ==
    LET line == file.lines[l + 1]
        from == char_pos_to_byte_pos(line, range.start.character)
        to == char_pos_to_byte_pos(line, range.end.character)
    IN IF l = range.start.line
       THEN IF from = NoByte THEN <<>> ELSE slice(line, from, byte_len(line))
       ELSE IF l = range.end.line
       THEN IF to = NoByte THEN <<>> ELSE slice(line, 0, to)
       ELSE line
\* The pieces of lines l .. last, one newline between consecutive ones.
RECURSIVE Joined(_, _, _, _)
Joined(file, range, l, last) ==
    IF l > last THEN <<>>
    ELSE Piece(file, range, l)
         \o (IF l < last THEN <<"\n">> ELSE <<>>)
         \o Joined(file, range, l + 1, last)
\* The last line of the range that the file has.
LastLine(file, range) ==
    IF range.end.line < Len(file.lines) THEN range.end.line
    ELSE Len(file.lines) - 1
MultiLineCall ==
    /\ txt.op = "read_text_from_range" /\ txt.done /\ txt.file.ok
    /\ txt.range.start.line < txt.range.end.line

\* C27: for a selection from one line to a later one, the text returned is
\* the first line from its mapped start offset, the interior lines whole and
\* the last line up to its mapped end offset, with one newline between
\* consecutive lines and none after the last.
C27_MultiLineJoin ==
    MultiLineCall =>
        txt.text = Joined(txt.file, txt.range, txt.range.start.line,
                          LastLine(txt.file, txt.range))

\* The UTF-16 code units of the characters of line before the i-th.
RECURSIVE UnitsBefore(_, _)
UnitsBefore(line, i) ==
    IF i <= 1 THEN 0
    ELSE UnitsBefore(line, i - 1) + (IF line[i - 1] = "emoji" THEN 2 ELSE 1)

\* C28: for a line and a UTF-16 offset k, the mapper returns the byte offset
\* at which the character holding code unit k starts (so the boundary at k,
\* or the start of the surrogate pair k falls inside), the line's byte length
\* for k equal to the line's length in code units, and nothing beyond that.
C28_Utf16OffsetMapping ==
    (txt.op = "char_pos_to_byte_pos" /\ txt.done) =>
        LET line == txt.line
            k == txt.utf16_pos
            total == UnitsBefore(line, Len(line) + 1)
        IN /\ k > total => txt.mapped = NoByte
           /\ k = total => txt.mapped = byte_len(line)
           /\ k < total =>
                 \E i \in 1 .. Len(line) :
                     /\ UnitsBefore(line, i) <= k
                     /\ k < UnitsBefore(line, i + 1)
                     /\ txt.mapped = byte_index(line, i)

C28_Witness ==
    /\ txt.op = "char_pos_to_byte_pos" /\ txt.done
    /\ txt.line = <<"a", "emoji", "b">>
    /\ txt.utf16_pos = 3 /\ txt.mapped = 5

\* The tools/call frames with a tool name that connection c has handled.
ToolCalls(c) ==
    {i \in 1 .. Len(conn[c].rcvd) :
        /\ conn[c].rcvd[i].msg.method = "tools/call"
        /\ conn[c].rcvd[i].msg.params = "named"}

\* C29: a handled tools/call frame with a tool name was answered by one
\* response with the request's id, a result {content, isError: false} and no
\* error; the content of the selection tools is the one block made from the
\* replica as it was, that of the other supported tools is one text block,
\* and that of any other name is the single block naming the tool as not
\* supported.
C29_ToolCallNeverErrors ==
    \A c \in ConnIds : \A i \in ToolCalls(c) :
        LET h == conn[c].rcvd[i]
            tool_name == h.msg.name
        IN /\ Len(h.reply) = 1
           /\ h.reply[1].id = h.msg.id
           /\ h.reply[1].result /\ ~h.reply[1].error
           /\ h.reply[1].wrapped /\ ~h.reply[1].isError
           /\ Len(h.reply[1].content) = 1
           /\ h.reply[1].content[1].type = "text"
           /\ tool_name \in {"getCurrentSelection", "getLatestSelection"} =>
                 /\ h.reply[1].content[1].text.success = (h.state # <<>>)
                 /\ h.state # <<>> =>
                       h.reply[1].content[1].text.selection = h.state[1]
           /\ tool_name \notin {"getWorkspaceFolders", "getCurrentSelection",
                                 "getLatestSelection", "getDiagnostics"} =>
                 h.reply[1].content[1].text = [not_supported |-> tool_name]

C29_Witness ==
    /\ Len(conn[1].rcvd) = 2
    /\ conn[1].rcvd[1].msg.name = "unknownTool"
    /\ conn[1].rcvd[1].reply[1].content[1].text
          = [not_supported |-> "unknownTool"]
    /\ conn[1].rcvd[2].msg.name = "getCurrentSelection"
    /\ conn[1].rcvd[2].reply[1].content[1].text.success

\* C30: whenever the frames written to a connection's socket change, the step
\* is one turn of that connection's own task, either the branch that answers
\* an inbound frame or the branch that forwards an event, and while the
\* connection stays open that turn appends whole frames after those already
\* written; no other task writes to the socket.
C30_SingleWriter ==
    [][\A c \in ConnIds :
          conn'[c].sent # conn[c].sent =>
              /\ \/ Forward(c)
                 \/ \E f \in ToolFrames : RecvFrame(c, f)
              /\ conn'[c].state = "open" =>
                    /\ Len(conn'[c].sent) = Len(conn[c].sent) + 1
                    /\ SubSeq(conn'[c].sent, 1, Len(conn[c].sent))
                          = conn[c].sent
              /\ replica' = replica]_vars

C30_Witness ==
    /\ conn[1].state = "open"
    /\ Len(conn[1].sent) = 3
    /\ conn[1].sent[1].kind = "response"
    /\ conn[1].sent[2].kind = "notification"
    /\ conn[1].sent[3].kind = "response"
    /\ replica[1].rx = 1

\* Event number n waits in connection c's subscription.
Pending(c, n) ==
    /\ conn[c].state = "open" /\ conn[c].rx # NoRx
    /\ conn[c].rx < n /\ n <= Len(log)
\* The subscription of c has lagged (recv's next result is Lagged), or the
\* task has already dropped it for that.
Lagged(c) ==
    \/ conn[c].rx = NoRx
    \/ Len(log) - conn[c].rx > BusCapacity
ForwardedTo(c, n) ==
    \E i \in 1 .. Len(conn[c].sent) :
        /\ conn[c].sent[i].kind = "notification"
        /\ conn[c].sent[i].id.n = n
\* The oldest unread frame of c is a request that calls for a response, and
\* c has handled k frames before it.
RequestWaiting(c, k) ==
    /\ conn[c].state = "open"
    /\ Len(conn[c].rcvd) = k
    /\ Queued(c) # <<>>
    /\ Queued(c)[1].msg.t = "request"
AnsweredAfter(c, k) ==
    /\ Len(conn[c].rcvd) > k
    /\ conn[c].rcvd[k + 1].reply # <<>>
    /\ \E i \in 1 .. Len(conn[c].sent) :
          conn[c].sent[i] = conn[c].rcvd[k + 1].reply[1]

C32_NeverRemovesLiveLock ==
    [][\A p \in ModelPorts :
          (p \in busy /\ lock[p] = "other" /\ lock'[p] # "other") =>
              OtherShutdown(p)]_vars

\* The publish numbers of the selection_changed events already sent to c.
ForwardedSelections(c) ==
    {conn[c].sent[i].id.n : i \in
        {j \in 1 .. Len(conn[c].sent) :
            /\ conn[c].sent[j].kind = "notification"
            /\ conn[c].sent[j].id.method = "selection_changed"}}

\* C33: when a connection answers a getCurrentSelection or getLatestSelection
\* call after it has sent selection_changed notifications, the answer carries
\* the selection of the latest of them or of a later selection_changed event,
\* not an older one and not "no selection".
C33_ReplicaNotBehindStream ==
    [][\A c \in ConnIds :
          (/\ Len(conn'[c].rcvd) = Len(conn[c].rcvd) + 1
           /\ Len(conn'[c].rcvd) \in ToolCalls(c)'
           /\ conn'[c].rcvd[Len(conn'[c].rcvd)].msg.name
                 \in {"getCurrentSelection", "getLatestSelection"}
           /\ ForwardedSelections(c) # {}) =>
              LET answer == conn'[c].rcvd[Len(conn'[c].rcvd)]
                                .reply[1].content[1].text
              IN /\ answer.success
                 /\ \E m \in 1 .. Len(log) :
                       /\ \A n \in ForwardedSelections(c) : n <= m
                       /\ log[m].method = "selection_changed"
                       /\ <<answer.selection>>
                             = SelectionState_from_value(log[m].params)]_vars

\* The watchdog has acted: it signalled shutdown, left its polling loop or
\* ended the process.
WatchdogActed ==
    \/ signals > 0 \/ shutdown
    \/ wdPc # "sleep"
    \/ exit \in {"watchdog", "watchdog_forced"}

\* C34 as stated: while the parent id read is the one recorded at startup,
\* whatever that id is, the watchdog has not acted.
C34_NoFalsePositive == ppid = initial_ppid => ~WatchdogActed

\* C34: while the parent id read is the one recorded at startup, and that id
\* is not the init process id, the watchdog has sent no shutdown signal, is
\* still in its polling loop and has not ended the process.
C34_NoFalsePositiveUnlessInit ==
    (ppid = initial_ppid /\ initial_ppid # INIT_PID) => ~WatchdogActed

\* The watchdog has polled as often as the model lets it, the parent alive.
C34_Witness ==
    /\ ppid = initial_ppid /\ initial_ppid # INIT_PID
    /\ polls = MaxPolls /\ current_ppid = initial_ppid
    /\ exit = "running" /\ ~WatchdogActed

\* The reply frames of the frames c has handled, in the order of handling.
RECURSIVE Answers(_, _)
Answers(c, k) ==
    IF k = 0 THEN <<>> ELSE Answers(c, k - 1) \o conn[c].rcvd[k].reply

\* C35: on a connection, every handled frame that decoded as a request, other
\* than a notification without id, was answered by exactly one response
\* frame; a binary or close frame, like such a notification, was answered by
\* none; and the response frames on the socket are those answers in the order
\* the frames were handled.
C35_OneResponseInOrder ==
    \A c \in ConnIds :
        /\ \A i \in 1 .. Len(conn[c].rcvd) :
              LET h == conn[c].rcvd[i]
                  silent == /\ h.msg.t = "request" /\ h.msg.id = NoId
                            /\ h.msg.method \in NotificationMethods
              IN /\ (h.msg.t = "request" /\ ~silent) =>
                       (Len(h.reply) = 1 /\ h.reply[1].kind = "response")
                 /\ (h.msg.t \in {"binary", "close"} \/ silent) =>
                       h.reply = <<>>
        /\ conn[c].state = "open" =>
              Replies(c) = Answers(c, Len(conn[c].rcvd))

\* Two requests answered in the order they came, the second by an error
\* response, around a forwarded event.
C35_Witness ==
    /\ conn[1].state = "open"
    /\ Len(conn[1].rcvd) = 2
    /\ conn[1].rcvd[1].msg.id = 2 /\ conn[1].rcvd[2].msg.id = 1
    /\ Len(conn[1].sent) = 3
    /\ conn[1].sent[1].kind = "response" /\ conn[1].sent[1].id = 2
    /\ conn[1].sent[2].kind = "notification"
    /\ conn[1].sent[3].kind = "response" /\ conn[1].sent[3].id = 1
    /\ conn[1].sent[3].error

\* C36: every selection_changed event on the bus has is_empty true exactly
\* when its start position equals its end position.
C36_IsEmptyIffStartIsEnd ==
    \A i \in 1 .. Len(log) :
        log[i].method = "selection_changed" =>
            (log[i].params.is_empty
                <=> log[i].params.start = log[i].params.end)

\* The length of a line in UTF-16 code units.
Utf16Len(line) == UnitsBefore(line, Len(line) + 1)
\* The cases in which there is no text to extract for a range of a file.
NothingToRead(file, range) ==
    \/ ~file.ok
    \/ /\ range.start.line = range.end.line
       /\ \/ range.start.line >= Len(file.lines)
          \/ LET line == file.lines[range.start.line + 1]
             IN \/ range.start.character > Utf16Len(line)
                \/ range.end.character > Utf16Len(line)
                \/ range.start.character > range.end.character

\* C37: a code-action request on an unreadable file, or for a single-line
\* range past the last line, reaching past the end of its line or ending
\* before it starts, is answered all the same, and has published exactly one
\* selection_changed event, with its range and the empty text.
C37_ExtractionNeverFails ==
    \A i \in 1 .. Len(lsp.answered) :
        LET a == lsp.answered[i]
        IN (a.req.kind = "code_action" /\ NothingToRead(lsp.file, a.req.range)) =>
              /\ Len(a.events) = 1
              /\ log[a.events[1]].method = "selection_changed"
              /\ log[a.events[1]].params.start = a.req.range.start
              /\ log[a.events[1]].params.end = a.req.range.end
              /\ log[a.events[1]].params.text = <<>>

\* On a readable file: a range that ends before it starts, then one past the
\* last line, both published with the empty text.
C37_Witness ==
    /\ lsp.file.ok
    /\ Len(lsp.answered) = 2
    /\ lsp.answered[1].req.kind = "code_action"
    /\ lsp.answered[1].req.range = Range(Position(0, 2), Position(0, 1))
    /\ lsp.answered[2].req.kind = "code_action"
    /\ lsp.answered[2].req.range = Range(Position(3, 0), Position(3, 1))
    /\ Len(log) = 2
    /\ log[1].params.text = <<>> /\ log[2].params.text = <<>>

\* The byte offsets at which a slice of line may start or end: the start of
\* each character, and the end of the line.
Boundaries(line) == {byte_index(line, i) : i \in 1 .. (Len(line) + 1)}

\* C38: every byte offset the mapper returns is a character boundary of its
\* line, between 0 and the line's byte length; and of the two offsets mapped
\* for a single-line range, the one for the smaller UTF-16 offset is not the
\* larger, so that the slice between them can be taken.
C38_MonotoneOnBoundaries ==
    /\ (txt.op = "char_pos_to_byte_pos" /\ txt.done /\ txt.mapped # NoByte) =>
          /\ txt.mapped \in Boundaries(txt.line)
          /\ 0 <= txt.mapped /\ txt.mapped <= byte_len(txt.line)
    /\ (txt.op = "read_text_from_range" /\ txt.done /\ txt.bytes # <<>>) =>
          LET line == txt.file.lines[txt.range.start.line + 1]
              a == txt.range.start.character
              b == txt.range.end.character
              start_byte == txt.bytes[1]
              end_byte == txt.bytes[2]
          IN /\ start_byte # NoByte => start_byte \in Boundaries(line)
             /\ end_byte # NoByte => end_byte \in Boundaries(line)
             /\ (start_byte # NoByte /\ end_byte # NoByte) =>
                   /\ a <= b => start_byte <= end_byte
                   /\ b <= a => end_byte <= start_byte

\* On the line emoji+a, UTF-16 offsets 1 (inside the surrogate pair) and 2
\* map to bytes 0 and 4, and the slice between them is the emoji.
C38_Witness ==
    /\ txt.op = "read_text_from_range" /\ txt.done
    /\ txt.file = File(<<(<<"emoji", "a">>)>>)
    /\ txt.range = Range(Position(0, 1), Position(0, 2))
    /\ txt.bytes = <<0, 4>>
    /\ txt.text = <<"emoji">>

====
